---- MODULE Spec2Model ----
(***************************************************************************)
(* Supervisor state machine of the shopping-assistant agents: the          *)
(* ConversationState reducers, the planner / supervisor / specialist       *)
(* nodes, and the graph runner that executes one node per step.            *)
(*                                                                         *)
(* JavaScript values are modelled as follows.                              *)
(*  - message contents, oracle answers and specialist replies are strings; *)
(*    String.includes, toLowerCase, split(/\s+/) and the JSON handling are *)
(*    computed on the characters.  Emoji prefixes of progress texts are    *)
(*    left out (no predicate of the code looks at them).                   *)
(*  - an object-valued field is a record with a tag: "undefined", "null"   *)
(*    or "obj"; a string-valued field uses the strings "undefined" and     *)
(*    "null" for the two absent values.                                    *)
(*  - confidences are integers in percent (70 stands for 0.7).             *)
(*  - timestamps are left out: no branch of the modelled code reads them.  *)
(***************************************************************************)
EXTENDS Integers, Sequences, FiniteSets, TLC

(***************************************************************************)
(* Strings                                                                 *)
(***************************************************************************)

\* String.prototype.includes
Contains(s, p) ==
  IF Len(p) = 0 THEN TRUE
  ELSE \E i \in 1..(Len(s) - Len(p) + 1) : SubSeq(s, i, i + Len(p) - 1) = p

ContainsAny(s, ps) == \E p \in ps : Contains(s, p)

CharAt(s, i) == SubSeq(s, i, i)

\* first index (1-based) of p in s, 0 when absent: String.prototype.indexOf + 1
IndexOf(s, p) ==
  IF Contains(s, p) /\ Len(p) > 0
  THEN CHOOSE i \in 1..(Len(s) - Len(p) + 1) :
         /\ SubSeq(s, i, i + Len(p) - 1) = p
         /\ \A j \in 1..(i - 1) : SubSeq(s, j, j + Len(p) - 1) # p
  ELSE 0

\* last index (1-based) of p in s, 0 when absent
LastIndexOf(s, p) ==
  IF Contains(s, p) /\ Len(p) > 0
  THEN CHOOSE i \in 1..(Len(s) - Len(p) + 1) :
         /\ SubSeq(s, i, i + Len(p) - 1) = p
         /\ \A j \in (i + 1)..(Len(s) - Len(p) + 1) : SubSeq(s, j, j + Len(p) - 1) # p
  ELSE 0

UpperChars == "ABCDEFGHIJKLMNOPQRSTUVWXYZ"
LowerChars == "abcdefghijklmnopqrstuvwxyz"

\* the lower-case letter of each upper-case letter
LowerOf == [c \in {CharAt(UpperChars, i) : i \in 1..Len(UpperChars)} |->
              CharAt(LowerChars, IndexOf(UpperChars, c))]

LowerChar(c) == IF c \in DOMAIN LowerOf THEN LowerOf[c] ELSE c

\* the characters a..b of s in lower case, by halving the range
RECURSIVE LowerRange(_, _, _)
LowerRange(s, a, b) ==
  IF a > b THEN ""
  ELSE IF a = b THEN LowerChar(CharAt(s, a))
  ELSE LowerRange(s, a, (a + b) \div 2) \o LowerRange(s, (a + b) \div 2 + 1, b)

\* String.prototype.toLowerCase
ToLower(s) == LowerRange(s, 1, Len(s))

IsSpace(c) == c = " "

\* String.prototype.trim followed by split(/\s+/), as the set of the tokens.
\* A string without any non-space character splits into the one token "".
Words(s) ==
  LET runs == { <<i, j>> \in (1..Len(s)) \X (1..Len(s)) :
                  /\ i <= j
                  /\ \A k \in i..j : ~IsSpace(CharAt(s, k))
                  /\ (i = 1 \/ IsSpace(CharAt(s, i - 1)))
                  /\ (j = Len(s) \/ IsSpace(CharAt(s, j + 1))) }
  IN IF runs = {} THEN {""} ELSE { SubSeq(s, r[1], r[2]) : r \in runs }

(***************************************************************************)
(* JSON: JSON.parse restricted to flat objects whose values are quoted     *)
(* strings without escapes, the literals true / false / null, or decimal   *)
(* numbers; JSON.stringify of such objects.  No white space between the    *)
(* tokens (the oracle answers of the model carry none).                    *)
(***************************************************************************)

Quote == "\""
Digits == "0123456789"
IsDigit(c) == Len(c) = 1 /\ Contains(Digits, c)
DigitVal(c) == IndexOf(Digits, c) - 1
DigitChar(n) == CharAt(Digits, n + 1)

\* index of the first occurrence of one of the characters cs at or after i, 0 if none
NextOf(s, i, cs) ==
  IF \E j \in i..Len(s) : CharAt(s, j) \in cs
  THEN CHOOSE j \in i..Len(s) :
         /\ CharAt(s, j) \in cs
         /\ \A k \in i..(j - 1) : CharAt(s, k) \notin cs
  ELSE 0

\* a decimal number d, d.d or d.dd with d a digit sequence of length 1
IsNumberToken(t) ==
  \/ Len(t) = 1 /\ IsDigit(t)
  \/ Len(t) \in {3, 4} /\ IsDigit(CharAt(t, 1)) /\ CharAt(t, 2) = "."
       /\ \A k \in 3..Len(t) : IsDigit(CharAt(t, k))

\* the number as a percentage: "0.5" is 50, "0.95" is 95, "1" is 100
NumberPercent(t) ==
  DigitVal(CharAt(t, 1)) * 100
    + (IF Len(t) >= 3 THEN DigitVal(CharAt(t, 3)) * 10 ELSE 0)
    + (IF Len(t) >= 4 THEN DigitVal(CharAt(t, 4)) ELSE 0)

\* String(n) for a natural number
RECURSIVE NumText(_)
NumText(n) == IF n < 10 THEN DigitChar(n) ELSE NumText(n \div 10) \o DigitChar(n % 10)

\* Number.prototype.toString of percent / 100
PercentJson(n) ==
  IF n % 100 = 0 THEN NumText(n \div 100)
  ELSE IF n % 10 = 0 THEN NumText(n \div 100) \o "." \o DigitChar((n % 100) \div 10)
  ELSE NumText(n \div 100) \o "." \o DigitChar((n % 100) \div 10) \o DigitChar(n % 10)

\* A parsed value: kind "str" (text), "num" (percent), "bool", "null".
JStr(t)  == [kind |-> "str",  text |-> t,  num |-> 0, bool |-> FALSE]
JNum(n)  == [kind |-> "num",  text |-> "", num |-> n, bool |-> FALSE]
JBool(b) == [kind |-> "bool", text |-> "", num |-> 0, bool |-> b]
JNull    == [kind |-> "null", text |-> "", num |-> 0, bool |-> FALSE]

NoParse == [ok |-> FALSE, fields |-> {}]

\* members of a flat object from position i on: "key":value ( , "key":value )* }
RECURSIVE ParseMembers(_, _, _)

\* the member key : tok is read, sep is the position of the separator after it;
\* a later member with the same key replaces the earlier one
ParseRest(s, acc, key, val, sep) ==
  IF CharAt(s, sep) = "}"
  THEN (IF sep = Len(s)
        THEN [ok |-> TRUE, fields |-> { m \in acc : m[1] # key } \cup { <<key, val>> }]
        ELSE NoParse)
  ELSE ParseMembers(s, sep + 1, { m \in acc : m[1] # key } \cup { <<key, val>> })

ParseLiteral(s, acc, key, tok, sep) ==
  IF tok = "true" THEN ParseRest(s, acc, key, JBool(TRUE), sep)
  ELSE IF tok = "false" THEN ParseRest(s, acc, key, JBool(FALSE), sep)
  ELSE IF tok = "null" THEN ParseRest(s, acc, key, JNull, sep)
  ELSE IF IsNumberToken(tok) THEN ParseRest(s, acc, key, JNum(NumberPercent(tok)), sep)
  ELSE NoParse

\* a quoted value from v1 to the closing quote at q
ParseString(s, acc, key, v1, q) ==
  IF q = 0 \/ q + 1 > Len(s) \/ CharAt(s, q + 1) \notin {",", "}"} THEN NoParse
  ELSE ParseRest(s, acc, key, JStr(SubSeq(s, v1 + 1, q - 1)), q + 1)

\* an unquoted value from v1 to the separator at sep
ParseBare(s, acc, key, v1, sep) ==
  IF sep = 0 THEN NoParse ELSE ParseLiteral(s, acc, key, SubSeq(s, v1, sep - 1), sep)

\* the key ends at the quote k2 and the value starts after the colon
ParseMember(s, i, acc, k2) ==
  IF k2 = 0 \/ k2 + 2 > Len(s) \/ CharAt(s, k2 + 1) # ":" THEN NoParse
  ELSE IF CharAt(s, k2 + 2) = Quote
  THEN ParseString(s, acc, SubSeq(s, i + 1, k2 - 1), k2 + 2, NextOf(s, k2 + 3, {Quote}))
  ELSE ParseBare(s, acc, SubSeq(s, i + 1, k2 - 1), k2 + 2, NextOf(s, k2 + 2, {",", "}"}))

ParseMembers(s, i, acc) ==
  IF i > Len(s) \/ CharAt(s, i) # Quote THEN NoParse
  ELSE ParseMember(s, i, acc, NextOf(s, i + 1, {Quote}))

\* JSON.parse(s) for a flat object; ok = FALSE stands for the thrown SyntaxError
\* (and for JSON texts that are not objects, which carry no field)
JsonParse(s) ==
  IF Len(s) >= 2 /\ CharAt(s, 1) = "{"
  THEN (IF s = "{}" THEN [ok |-> TRUE, fields |-> {}] ELSE ParseMembers(s, 2, {}))
  ELSE NoParse

HasField(obj, key) == \E m \in obj.fields : m[1] = key
Field(obj, key) == (CHOOSE m \in obj.fields : m[1] = key)[2]
\* obj.key when it is a string, else "" (no field, or another type)
FieldText(obj, key) ==
  IF HasField(obj, key) /\ Field(obj, key).kind = "str" THEN Field(obj, key).text ELSE ""
\* JavaScript truthiness of obj.key
FieldTruthy(obj, key) ==
  /\ HasField(obj, key)
  /\ LET v == Field(obj, key) IN
       \/ v.kind = "str" /\ v.text # ""
       \/ v.kind = "num" /\ v.num # 0
       \/ v.kind = "bool" /\ v.bool

\* the match of /\{[\s\S]*\}/ : from the first "{" to the last "}"
BraceBlock(s) ==
  LET a == IndexOf(s, "{")
      b == LastIndexOf(s, "}")
  IN IF a = 0 \/ b = 0 \/ b < a THEN "" ELSE SubSeq(s, a, b)

\* safeParseJson: direct parse, then the brace block; NoParse stands for null
ParseOrBlock(direct, block) ==
  IF direct.ok THEN direct ELSE IF block = "" THEN NoParse ELSE JsonParse(block)

safeParseJson(text) ==
  IF text = "" THEN NoParse ELSE ParseOrBlock(JsonParse(text), BraceBlock(text))

(***************************************************************************)
(* Values of the ConversationState                                         *)
(***************************************************************************)

END == "__end__"
Absent == "<absent>"

Undef == [tag |-> "undefined"]
NullV == [tag |-> "null"]
\* JavaScript truthiness of an object-valued field
Truthy(v) == v.tag = "obj"
\* a string-valued field: undefined or null
Nullish(s) == s \in {"undefined", "null"}
Falsy(s) == s \in {"undefined", "null", ""}

\* ProductInfo { product, quantity }; quantity 0 stands for no quantity
Product(name, qty) == [tag |-> "obj", product |-> name, quantity |-> qty]

\* DealData; a field that the object does not carry is Absent
Deal(applied, pending, includesCheckout, type, response, originalIntent, workflowType, history) ==
  [tag |-> "obj", applied |-> applied, pending |-> pending,
   includesCheckout |-> includesCheckout, type |-> type, response |-> response,
   originalIntent |-> originalIntent, workflowType |-> workflowType, history |-> history]

\* the object { ...base, ...over } for two DealData objects
DealOver(base, over) ==
  LET pick(f) == IF over[f] # Absent THEN over[f] ELSE base[f] IN
  Deal(pick("applied"), pick("pending"), pick("includesCheckout"), pick("type"),
       pick("response"), pick("originalIntent"), pick("workflowType"), pick("history"))

\* { ...dealData, ...over } where dealData may be undefined or null
DealSpread(dealData, over) == IF Truthy(dealData) THEN DealOver(dealData, over) ELSE over

NoDealFields == Deal(Absent, Absent, Absent, Absent, Absent, Absent, Absent, Absent)

\* cart data { items }
Cart(items) == [tag |-> "obj", items |-> items]

\* NotificationData { summary, cartData, orderId, total }; userId, conversationId
\* and timestamp are carried by every payload and read by no branch
Notification(summary, cart, orderId, total) ==
  [tag |-> "obj", summary |-> summary, cart |-> cart, orderId |-> orderId, total |-> total]

NotificationOver(base, over) ==
  LET pick(f) == IF over[f] # Absent THEN over[f] ELSE base[f] IN
  Notification(pick("summary"), over.cart, pick("orderId"), pick("total"))

\* PlanRecommendation; confidence in percent, -1 when the object has none
Plan(action, targetAgent, confidence, task, reasoning, autoApplyIntent) ==
  [tag |-> "obj", action |-> action, targetAgent |-> targetAgent,
   confidence |-> confidence, task |-> task, reasoning |-> reasoning,
   autoApplyIntent |-> autoApplyIntent]

\* AnnotatedMessage: prog is progress.isProgressUpdate, eph is progress.ephemeral,
\* rec is the planningRecommendation the planner attaches to its message
Msg(role, agent, content, prog, eph, rec) ==
  [role |-> role, agent |-> agent, content |-> content, prog |-> prog, eph |-> eph,
   rec |-> rec]

annotateMessage(content, role, agent) == Msg(role, agent, content, FALSE, FALSE, Undef)

createProgressMessage(content, agent) == Msg("assistant", agent, content, TRUE, TRUE, Undef)

getAgentProgressMessage(agentName, context) ==
  createProgressMessage(
    CASE agentName = "catalog" -> "Searching our catalog..."
      [] agentName = "deals" -> "Checking for deals..."
      [] agentName = "cart_and_checkout" ->
           (IF context \in {"process_checkout", "prepare_checkout"}
            THEN "Processing checkout..." ELSE "Managing your cart...")
      [] agentName = "payment" -> "Managing payments..."
      [] agentName = "notification_agent" -> "Sending notifications..."
      [] OTHER -> "Delegating to " \o agentName \o "...",
    "supervisor")

(***************************************************************************)
(* Reducers of SupervisorState                                             *)
(***************************************************************************)

KeepEphemeral == 5
KeepPermanent == 10
MaxDelegationDepth == 100

ValidContexts ==
  {"awaiting_deal_confirmation", "add_to_cart_with_deals", "add_to_cart_with_checkout",
   "check_deals", "prepare_checkout", "process_checkout", "send_notification"}

\* Array.prototype.slice(-n)
LastN(s, n) == IF Len(s) <= n THEN s ELSE SubSeq(s, Len(s) - n + 1, Len(s))

IsEphemeral(m) == m.prog /\ m.eph
IsPermanent(m) == ~m.prog \/ ~m.eph

\* a reducer that concatenates and never trims
messagesReducerUncapped(x, y) == x \o y

messagesReducer(x, y) ==
  LET combined == x \o y
      ephemeral == SelectSeq(combined, IsEphemeral)
      permanent == SelectSeq(combined, IsPermanent)
  IN LastN(permanent, KeepPermanent) \o LastN(ephemeral, KeepEphemeral)

nextReducer(x, y) == IF ~Nullish(y) THEN y ELSE IF ~Nullish(x) THEN x ELSE END

userIdReducer(x, y) ==
  IF Falsy(y) /\ Falsy(x) THEN "default-user" ELSE IF ~Nullish(y) THEN y ELSE x

conversationIdReducer(x, y) ==
  IF Falsy(y) /\ Falsy(x) THEN "conv-generated" ELSE IF ~Nullish(y) THEN y ELSE x

cartDataReducer(x, y) ==
  IF y.tag = "null" THEN NullV
  ELSE IF ~Truthy(y) THEN x
  ELSE IF ~Truthy(x) THEN y
  ELSE y   \* { ...x, ...y }: every cart object carries the same keys

workflowContextReducer(x, y) ==
  IF ~Falsy(y) /\ y \notin ValidContexts THEN x
  ELSE IF ~Nullish(y) THEN y ELSE x

dealDataReducer(x, y) ==
  IF y.tag = "null" THEN NullV
  ELSE IF ~Truthy(y) THEN x
  ELSE IF ~Truthy(x) THEN y
  ELSE [DealOver(x, y) EXCEPT !.history = "[]"]  \* histories are always empty lists

\* y: -1 stands for undefined, -2 for null
delegationDepthReducer(x, y) ==
  IF y = -2 THEN 0
  ELSE LET prev == IF x >= 0 THEN x ELSE 0
           nxt == IF y >= 0 THEN y ELSE prev
       IN IF nxt > MaxDelegationDepth THEN MaxDelegationDepth ELSE nxt

pendingProductReducer(x, y) ==
  IF y.tag = "null" THEN NullV
  ELSE IF ~Truthy(y) THEN x
  ELSE IF y.product \in {Absent, ""} THEN x
  ELSE y

notificationDataReducer(x, y) ==
  IF y.tag = "null" THEN NullV
  ELSE IF ~Truthy(y) THEN x
  ELSE IF ~Truthy(x) THEN y
  ELSE NotificationOver(x, y)

plannerRecommendationReducer(x, y) ==
  IF y.tag = "null" THEN NullV
  ELSE IF ~Truthy(y) THEN x
  ELSE y

\* A state fragment that carries no field at all
EmptyFragment ==
  [messages |-> <<>>, next |-> "undefined", userId |-> "undefined",
   conversationId |-> "undefined", cartData |-> Undef, workflowContext |-> "undefined",
   dealData |-> Undef, delegationDepth |-> -1, pendingProduct |-> Undef,
   notificationData |-> Undef, plannerRecommendation |-> Undef]

\* The graph runner applies the reducer of every field to a node's fragment
MergeFragment(s, f) ==
  [messages |-> messagesReducer(s.messages, f.messages),
   next |-> nextReducer(s.next, f.next),
   userId |-> userIdReducer(s.userId, f.userId),
   conversationId |-> conversationIdReducer(s.conversationId, f.conversationId),
   cartData |-> cartDataReducer(s.cartData, f.cartData),
   workflowContext |-> workflowContextReducer(s.workflowContext, f.workflowContext),
   dealData |-> dealDataReducer(s.dealData, f.dealData),
   delegationDepth |-> delegationDepthReducer(s.delegationDepth, f.delegationDepth),
   pendingProduct |-> pendingProductReducer(s.pendingProduct, f.pendingProduct),
   notificationData |-> notificationDataReducer(s.notificationData, f.notificationData),
   plannerRecommendation |->
     plannerRecommendationReducer(s.plannerRecommendation, f.plannerRecommendation)]

(***************************************************************************)
(* Oracles.  An oracle answer is the text the language model returned, or  *)
(* Throws when the invocation failed (network error, timeout).             *)
(***************************************************************************)

Throws == "<throws>"

\* String.prototype.trim
RECURSIVE Trim(_)
Trim(s) ==
  IF Len(s) = 0 THEN s
  ELSE IF IsSpace(CharAt(s, 1)) THEN Trim(SubSeq(s, 2, Len(s)))
  ELSE IF IsSpace(CharAt(s, Len(s))) THEN Trim(SubSeq(s, 1, Len(s) - 1))
  ELSE s

(***************************************************************************)
(* Workflow detection.  An operator that needs a derived value on several  *)
(* branches receives it as a parameter from the operator that models the   *)
(* source function, so that the value is written down once.                *)
(***************************************************************************)

ComplexResult(dealsAndCart, conditional, multiAction, hasCheckout) ==
  IF dealsAndCart \/ conditional \/ multiAction
  THEN [isComplex |-> TRUE,
        workflowType |->
          IF dealsAndCart
          THEN (IF hasCheckout THEN "deals_to_cart_to_checkout" ELSE "deals_to_cart")
          ELSE IF conditional
          THEN (IF hasCheckout THEN "conditional_purchase_with_checkout"
                ELSE "conditional_purchase")
          ELSE (IF hasCheckout THEN "multi_step_purchase_with_checkout"
                ELSE "multi_step_purchase"),
        includesCheckout |-> hasCheckout]
  ELSE [isComplex |-> FALSE, workflowType |-> Absent, includesCheckout |-> FALSE]

\* lc: the message in lower case
ComplexWorkflowOf(lc) ==
  LET has(p) == Contains(lc, p) IN
  ComplexResult(
    /\ (has("check") \/ has("find") \/ has("look"))
    /\ (has("deal") \/ has("promotion") \/ has("discount") \/ has("sale"))
    /\ (has("add") /\ has("cart")),
    /\ has("if")
    /\ (has("deal") \/ has("discount") \/ has("sale") \/ has("promotion"))
    /\ (has("add") \/ has("buy") \/ has("purchase")),
    /\ has(" and ")
    /\ (has("deal") \/ has("promotion") \/ has("discount"))
    /\ (has("add") \/ has("cart")),
    \/ has("checkout") \/ has("check out") \/ has("place order") \/ has("complete order")
    \/ (has("then") /\ (has("continue") \/ has("proceed")))
    \/ (has("just") /\ has("continue")))

detectComplexWorkflow(messageContent) == ComplexWorkflowOf(ToLower(messageContent))

AffirmativePatterns ==
  {"yes", "sure", "ok", "okay", "apply", "take", "sounds", "great", "perfect", "good",
   "deal", "go"}

\* some pattern is part of a word of the message, or some word part of a pattern
AffirmativeAmong(messageWords) ==
  \E pattern \in AffirmativePatterns : \E word \in messageWords :
    Contains(word, pattern) \/ Contains(pattern, word)

\* an affirmative detection that compares without lower-casing the message
hasAffirmativeCaseSensitive(messageContent) == AffirmativeAmong(Words(messageContent))

\* the affirmative detection of the supervisor's early check
hasAffirmative(messageContent) == AffirmativeAmong(Words(ToLower(messageContent)))

Analysis(isContinuation, continuationType, confidence) ==
  [isContinuation |-> isContinuation, continuationType |-> continuationType,
   confidence |-> confidence]

\* Math.max(0, Math.min(1, x)) on percentages
Clamp01(n) == IF n < 0 THEN 0 ELSE IF n > 100 THEN 100 ELSE n

\* a confidence that is not a number: NaN, and the null that JSON.stringify
\* writes for NaN; both compare false with every threshold
NaN == -1
NullConfidence == -2

\* Math.max(0, Math.min(1, v || 0.5)) for a parsed value v: a number is
\* clamped, true counts as 1, a string is converted to a number and gives NaN
\* when it is not numeric
ClampedConfidence(v) ==
  CASE v.kind = "num" /\ v.num # 0 -> Clamp01(v.num)
    [] v.kind = "bool" /\ v.bool -> 100
    [] v.kind = "str" /\ v.text # "" ->
         (IF IsNumberToken(v.text) THEN Clamp01(NumberPercent(v.text)) ELSE NaN)
    [] OTHER -> 50

AnalysisOf(parsed, lower) ==
  IF parsed.ok
  THEN Analysis(FieldTruthy(parsed, "isContinuation"),
                IF FieldTruthy(parsed, "continuationType")
                THEN FieldText(parsed, "continuationType") ELSE "other",
                IF HasField(parsed, "confidence")
                THEN ClampedConfidence(Field(parsed, "confidence")) ELSE 50)
  ELSE IF Contains(lower, "continuation") /\ Contains(lower, "true")
       THEN Analysis(TRUE, "other", 70)
       ELSE Analysis(FALSE, "new_request", 60)

ParseBlock(block) == IF block = "" THEN NoParse ELSE JsonParse(block)

parseLLMResponse(content) == AnalysisOf(ParseBlock(BraceBlock(content)), ToLower(content))

\* lower.split(/\\s+/): the pattern of the source is a backslash followed by
\* the letter s, so a message without a backslash stays one single token
HeuristicWords(lower) == {lower}

HeuristicOf(lower, workflowContext, pendingProduct) ==
  IF workflowContext = "awaiting_deal_confirmation" /\ Truthy(pendingProduct)
     /\ AffirmativeAmong(HeuristicWords(lower))
  THEN Analysis(TRUE, "deal_confirmation", 85)
  ELSE IF ContainsAny(lower, {"checkout", "buy", "purchase", "pay", "order", "complete"})
  THEN Analysis(TRUE, "checkout_flow", 90)
  ELSE IF Contains(lower, "add") /\ Contains(lower, "cart") /\ Truthy(pendingProduct)
  THEN Analysis(TRUE, "add_to_cart", 80)
  ELSE Analysis(FALSE, "new_request", 60)

basicHeuristicAnalysis(message, workflowContext, dealData, pendingProduct) ==
  HeuristicOf(Trim(ToLower(message)), workflowContext, pendingProduct)

\* detectContinuationIntentImpl; answer is the Continuation Oracle's answer
detectContinuationIntent(message, workflowContext, dealData, pendingProduct, answer) ==
  IF answer = Throws
  THEN basicHeuristicAnalysis(message, workflowContext, dealData, pendingProduct)
  ELSE parseLLMResponse(answer)

ProductOf(result) ==
  IF /\ result.ok
     /\ HasField(result, "product") /\ Field(result, "product").kind = "str"
     /\ HasField(result, "quantity") /\ Field(result, "quantity").kind = "num"
  THEN Product(FieldText(result, "product"), Field(result, "quantity").num \div 100)
  ELSE NullV

\* productExtractor: answer is the oracle's answer; NullV stands for null
extractProductInfo(content, answer) ==
  IF content = "" \/ answer = Throws THEN NullV
  ELSE ProductOf(ParseOrBlock(JsonParse(answer), BraceBlock(answer)))

(***************************************************************************)
(* The supervisor node                                                     *)
(***************************************************************************)

MIN_CONTINUATION_CONFIDENCE == 70

\* What a node call produced: the fragment it returned, the oracles it
\* invoked, and whether it threw instead of returning
NodeResult(frag, calls, threw) == [frag |-> frag, calls |-> calls, threw |-> threw]

LastMessage(messages) == messages[Len(messages)]

\* the progress message pushed when a specialist has just returned
CompletionMessage(s, agent) ==
  createProgressMessage(
    CASE agent = "deals" ->
           (IF Truthy(s.dealData) /\ s.dealData.applied = "true"
            THEN "Found deals, proceeding..."
            ELSE IF Truthy(s.dealData) /\ s.dealData.pending = "true"
            THEN "Found deals, awaiting confirmation..."
            ELSE "Deal search completed...")
      [] agent = "cart_and_checkout" ->
           (IF s.workflowContext \in {"process_checkout", "prepare_checkout"}
            THEN "Checkout completed..." ELSE "Added items to cart...")
      [] agent = "catalog" -> "Catalog search completed..."
      [] agent = "payment" -> "Payment processing completed..."
      [] agent = "notification_agent" -> "Notifications sent..."
      [] OTHER -> "Agent task completed...",
    "supervisor")

\* the progress messages every branch of the supervisor starts its list with
InitialMessages(s, agent) ==
  IF ~Falsy(agent) /\ agent \notin {"supervisor", "user"}
  THEN <<CompletionMessage(s, agent),
         createProgressMessage("Evaluating next steps...", "supervisor")>>
  ELSE <<createProgressMessage("Evaluating request...", "supervisor")>>

DeclineText ==
  "No problem! Let me know if you'd like to explore other products or if there's anything else I can help you with."

\* notificationData?.orderId || 'N/A'
OrderIdOrNA(notificationData) ==
  IF Truthy(notificationData) /\ notificationData.orderId \notin {Absent, "null", ""}
  THEN notificationData.orderId ELSE "N/A"

RoutableByLlm == {"catalog", "cart_and_checkout", "payment", "deals"}
PlannerValidAgents == {"catalog", "cart_and_checkout", "deals", "payment", "notification_agent"}

\* the fields every branch of the supervisor returns
SupervisorBase(s) ==
  [EmptyFragment EXCEPT !.userId = s.userId, !.conversationId = s.conversationId]

\* [...initialMessages, progress message of the target, lastAnnotated]
Routed(initialMessages, lastAnnotated, agent, ctx) ==
  initialMessages \o <<getAgentProgressMessage(agent, ctx), lastAnnotated>>

\* the general fallback, once the routing LLM has named selectedAgent and the
\* product has been extracted (extractedProduct is the state's pending product
\* when no extraction is made)
GeneralRouting(s, initialMessages, lastAnnotated, complexWorkflow, selectedAgent, extractedProduct, finalWorkflowContext, calls) ==
  NodeResult(
    [SupervisorBase(s) EXCEPT
       !.next = selectedAgent,
       !.workflowContext = finalWorkflowContext,
       !.pendingProduct =
         IF Truthy(extractedProduct) THEN extractedProduct ELSE s.pendingProduct,
       !.dealData =
         IF complexWorkflow.isComplex /\ selectedAgent = "deals"
            /\ Truthy(extractedProduct) /\ complexWorkflow.includesCheckout
         THEN DealSpread(s.dealData,
                         [NoDealFields EXCEPT
                            !.includesCheckout = "true",
                            !.workflowType = complexWorkflow.workflowType])
         ELSE s.dealData,
       !.cartData = s.cartData,
       !.plannerRecommendation = s.plannerRecommendation,
       !.messages = Routed(initialMessages, lastAnnotated, selectedAgent,
                           finalWorkflowContext)],
    calls, FALSE)

\* the routing LLM's answer taken as it is
SelectedAgentUnvalidated(nextAgent) == nextAgent

\* the routing LLM's answer, trimmed and lower-cased, or catalog
SelectedAgent(nextAgent) == IF nextAgent \in RoutableByLlm THEN nextAgent ELSE "catalog"

\* a hand-on to the cart node that leaves the context and the pending product
AutoCheckoutHandOnKeepingContext(s, messages) ==
  [SupervisorBase(s) EXCEPT
     !.next = "cart_and_checkout",
     !.workflowContext = s.workflowContext,
     !.dealData = s.dealData,
     !.pendingProduct = s.pendingProduct,
     !.cartData = s.cartData,
     !.plannerRecommendation = s.plannerRecommendation,
     !.messages = messages]

\* the fragment of the add_to_cart_with_checkout rule: automatic checkout after
\* the cart addition
AutoCheckoutHandOn(s, messages) ==
  [SupervisorBase(s) EXCEPT
     !.next = "cart_and_checkout",
     !.workflowContext = "process_checkout",
     !.dealData = s.dealData,
     !.pendingProduct = NullV,
     !.cartData = s.cartData,
     !.plannerRecommendation = s.plannerRecommendation,
     !.messages = messages]

\* the general fallback from the routing LLM's answer on
FallbackRouting(s, o, initialMessages, lastAnnotated, complexWorkflow, selectedAgent) ==
  IF (selectedAgent = "deals" /\ ~Truthy(s.pendingProduct)) \/ complexWorkflow.isComplex
  THEN GeneralRouting(
         s, initialMessages, lastAnnotated, complexWorkflow, selectedAgent,
         extractProductInfo(lastAnnotated.content, o.extract),
         IF complexWorkflow.isComplex /\ selectedAgent = "deals"
            /\ Truthy(extractProductInfo(lastAnnotated.content, o.extract))
         THEN "check_deals" ELSE s.workflowContext,
         {"continuation", "routing"} \cup
           (IF lastAnnotated.content # "" THEN {"extraction"} ELSE {}))
  ELSE GeneralRouting(s, initialMessages, lastAnnotated, complexWorkflow, selectedAgent,
                      s.pendingProduct, s.workflowContext, {"continuation", "routing"})

\* a continuation test that admits the threshold itself
HighConfidenceContinuationFromThreshold(analysis) ==
  analysis.isContinuation /\ analysis.confidence >= MIN_CONTINUATION_CONFIDENCE

\* continuationAnalysis.isContinuation && confidence > MIN_CONTINUATION_CONFIDENCE
HighConfidenceContinuation(analysis) ==
  analysis.isContinuation /\ analysis.confidence > MIN_CONTINUATION_CONFIDENCE

\* the supervisor from the continuation analysis on
ContinuationRouting(s, o, initialMessages, lastAnnotated, complexWorkflow, analysis) ==
  LET continues == HighConfidenceContinuation(analysis)
      hasPending == Truthy(s.pendingProduct)
      routed(agent, ctx) == Routed(initialMessages, lastAnnotated, agent, ctx)
  IN
  IF continues /\ analysis.continuationType = "deal_confirmation"
  THEN NodeResult(
         [SupervisorBase(s) EXCEPT
            !.next = "cart_and_checkout",
            !.workflowContext = "add_to_cart_with_deals",
            !.dealData = s.dealData,
            !.pendingProduct = s.pendingProduct,
            !.messages = routed("cart_and_checkout", "add_to_cart_with_deals")],
         {"continuation"}, FALSE)
  ELSE IF continues /\ analysis.continuationType = "checkout_flow"
  THEN NodeResult(
         [SupervisorBase(s) EXCEPT
            !.next = "cart_and_checkout",
            !.workflowContext =
              IF Truthy(s.cartData) THEN "process_checkout" ELSE "prepare_checkout",
            !.cartData = s.cartData,
            !.messages = routed("cart_and_checkout",
                                IF Truthy(s.cartData) THEN "process_checkout"
                                ELSE "prepare_checkout")],
         {"continuation"}, FALSE)
  ELSE IF continues /\ analysis.continuationType = "add_to_cart"
  THEN NodeResult(
         [SupervisorBase(s) EXCEPT
            !.next = IF hasPending THEN "cart_and_checkout" ELSE "deals",
            !.workflowContext =
              IF hasPending THEN "add_to_cart_with_deals" ELSE "check_deals",
            !.dealData = s.dealData,
            !.pendingProduct = s.pendingProduct,
            !.messages = routed(IF hasPending THEN "cart_and_checkout" ELSE "deals",
                                IF hasPending THEN "add_to_cart_with_deals"
                                ELSE "check_deals")],
         {"continuation"}, FALSE)
  ELSE IF s.workflowContext = "add_to_cart_with_deals" /\ hasPending
  THEN NodeResult(
         [SupervisorBase(s) EXCEPT
            !.next = "cart_and_checkout",
            !.workflowContext = "add_to_cart_with_deals",
            !.dealData = s.dealData,
            !.pendingProduct = s.pendingProduct,
            !.plannerRecommendation = s.plannerRecommendation,
            !.messages = routed("cart_and_checkout", "add_to_cart_with_deals")],
         {"continuation"}, FALSE)
  ELSE IF s.workflowContext = "add_to_cart_with_checkout"
  THEN NodeResult(AutoCheckoutHandOn(s, routed("cart_and_checkout", "process_checkout")),
                  {"continuation"}, FALSE)
  \* getLlm().invoke is not guarded: its failure is the node's failure
  ELSE IF o.route = Throws
  THEN NodeResult(EmptyFragment, {"continuation", "routing"}, TRUE)
  ELSE FallbackRouting(s, o, initialMessages, lastAnnotated, complexWorkflow,
                       SelectedAgent(Trim(ToLower(o.route))))

\* a planner block that trusts the planner's target
FinalTargetAgentAsPlanned(s, plan, complexWorkflow) == plan.targetAgent

\* the agent the planner-delegation block settles on
FinalTargetAgent(s, plan, complexWorkflow) ==
  IF s.workflowContext = "add_to_cart_with_deals" /\ Truthy(s.pendingProduct)
  THEN "cart_and_checkout"
  ELSE IF s.workflowContext = "awaiting_deal_confirmation" /\ Truthy(s.pendingProduct)
  THEN plan.targetAgent
  ELSE IF complexWorkflow.isComplex /\ plan.targetAgent = "supervisor" THEN "deals"
  ELSE plan.targetAgent

\* the supervisor from the planner recommendation on
PlannerRouting(s, o, initialMessages, lastAnnotated, complexWorkflow, plan) ==
  IF Truthy(plan) /\ plan.action = "direct_response"
  THEN NodeResult(
         [SupervisorBase(s) EXCEPT
            !.next = END,
            !.workflowContext = s.workflowContext,
            !.dealData = s.dealData,
            !.pendingProduct = s.pendingProduct,
            !.cartData = s.cartData,
            !.messages = initialMessages \o
              <<annotateMessage(
                  IF plan.task \notin {Absent, ""} THEN plan.task
                  ELSE IF plan.reasoning \notin {Absent, ""} THEN plan.reasoning
                  ELSE "Hello! How can I help you today?",
                  "assistant", "supervisor")>>],
         {}, FALSE)
  ELSE IF /\ Truthy(plan) /\ plan.action = "delegate"
          /\ plan.targetAgent \notin {Absent, "undefined", "null", ""}
          /\ \/ FinalTargetAgent(s, plan, complexWorkflow) # plan.targetAgent
             \/ plan.confidence > 70
  THEN NodeResult(
         [SupervisorBase(s) EXCEPT
            !.next = FinalTargetAgent(s, plan, complexWorkflow),
            !.workflowContext = s.workflowContext,
            !.dealData = s.dealData,
            !.pendingProduct = s.pendingProduct,
            !.cartData = s.cartData,
            !.messages = Routed(initialMessages, lastAnnotated,
                                FinalTargetAgent(s, plan, complexWorkflow),
                                s.workflowContext)],
         {}, FALSE)
  ELSE ContinuationRouting(
         s, o, initialMessages, lastAnnotated, complexWorkflow,
         detectContinuationIntent(lastAnnotated.content, s.workflowContext, s.dealData,
                                  s.pendingProduct, o.cont))

\* the rules that read the workflow context before anything else
ContextRouting(s, o, initialMessages, lastAnnotated) ==
  IF s.workflowContext = "send_notification"
  THEN NodeResult(
         [SupervisorBase(s) EXCEPT
            !.next = "notification_agent",
            !.workflowContext = "send_notification",
            !.plannerRecommendation = s.plannerRecommendation,
            !.messages = initialMessages \o
              <<annotateMessage("Checkout completed successfully! Your order ID is: "
                                \o OrderIdOrNA(s.notificationData),
                                "assistant", "supervisor"),
                getAgentProgressMessage("notification_agent", "send_notification"),
                lastAnnotated>>],
         {}, FALSE)
  ELSE IF s.workflowContext = "awaiting_deal_confirmation" /\ Truthy(s.pendingProduct)
  THEN (IF hasAffirmative(lastAnnotated.content)
        THEN NodeResult(
               [SupervisorBase(s) EXCEPT
                  !.next = "cart_and_checkout",
                  !.workflowContext = "add_to_cart_with_deals",
                  !.dealData = s.dealData,
                  !.pendingProduct = s.pendingProduct,
                  !.cartData = s.cartData,
                  !.messages = Routed(initialMessages, lastAnnotated, "cart_and_checkout",
                                      "add_to_cart_with_deals")],
               {}, FALSE)
        ELSE NodeResult(
               [SupervisorBase(s) EXCEPT
                  !.next = END,
                  !.workflowContext = "undefined",
                  !.dealData = Undef,
                  !.pendingProduct = Undef,
                  !.cartData = s.cartData,
                  !.messages = initialMessages \o
                    <<annotateMessage(DeclineText, "assistant", "supervisor")>>],
               {}, FALSE))
  ELSE PlannerRouting(s, o, initialMessages, lastAnnotated,
                      detectComplexWorkflow(lastAnnotated.content), s.plannerRecommendation)

\* a supervisor that handles the planner recommendation before the context rules
supervisorPlannerFirst(s, o) ==
  PlannerRouting(s, o, InitialMessages(s, LastMessage(s.messages).agent),
                 LastMessage(s.messages),
                 detectComplexWorkflow(LastMessage(s.messages).content),
                 s.plannerRecommendation)

\* s: the ConversationState (at least one message); o.cont, o.route, o.extract:
\* the answers the continuation, routing and extraction oracles give if invoked
supervisor(s, o) ==
  ContextRouting(s, o, InitialMessages(s, LastMessage(s.messages).agent),
                 LastMessage(s.messages))

(***************************************************************************)
(* Specialist nodes.  A reply of a specialist agent graph is the record     *)
(* [messages, content]: the contents of the messages it returned and its   *)
(* top-level content field (Absent when the reply carries none).           *)
(***************************************************************************)

Reply(messages, content) == [messages |-> messages, content |-> content]

\* (result.messages || []).map(m => annotateMessage(m, 'assistant', agent))
RECURSIVE AnnotateAll(_, _)
AnnotateAll(texts, agent) ==
  IF texts = <<>> THEN <<>>
  ELSE <<annotateMessage(Head(texts), "assistant", agent)>> \o AnnotateAll(Tail(texts), agent)

\* the content of the last message with role user, else the fallback
LastUserContent(messages, fallback) ==
  LET userMessages == SelectSeq(messages, LAMBDA m : m.role = "user") IN
  IF Len(userMessages) > 0 THEN userMessages[Len(userMessages)].content ELSE fallback

\* every field a specialist passes through unchanged
Preserve(s) ==
  [EmptyFragment EXCEPT !.userId = s.userId,
                        !.conversationId = s.conversationId,
                        !.workflowContext = s.workflowContext,
                        !.dealData = s.dealData,
                        !.pendingProduct = s.pendingProduct,
                        !.cartData = s.cartData]

catalogNode(s, reply) ==
  NodeResult([Preserve(s) EXCEPT !.messages = AnnotateAll(reply.messages, "catalog"),
                                 !.plannerRecommendation = s.plannerRecommendation,
                                 !.next = END],
             {"catalog_agent"}, FALSE)

paymentNode(s, reply) ==
  NodeResult([Preserve(s) EXCEPT !.messages = AnnotateAll(reply.messages, "payment"),
                                 !.next = END],
             {"payment_agent"}, FALSE)

CheckoutWords(actualUserContent, workflowContext) ==
  \/ ContainsAny(actualUserContent, {"checkout", "buy", "purchase"})
  \/ workflowContext \in {"process_checkout", "prepare_checkout"}

isCheckoutRequest(s) ==
  CheckoutWords(ToLower(LastUserContent(s.messages, LastMessage(s.messages).content)),
                s.workflowContext)

\* the text the cart node inspects: the last reply message, else reply.content
ResponseContent(reply) ==
  IF Len(reply.messages) > 0 /\ reply.messages[Len(reply.messages)] # ""
  THEN reply.messages[Len(reply.messages)]
  ELSE IF reply.content = Absent THEN "" ELSE reply.content

NotRecognizedIn(lower) ==
  ContainsAny(lower, {"not recognizing the product", "product not found", "item not found"})

productNotRecognized(contentStr) == NotRecognizedIn(ToLower(contentStr))

CheckoutSuccessIn(lower) ==
  ContainsAny(lower,
              {"checkout completed", "order confirmed", "payment successful", "order placed"})

checkoutSuccess(contentStr) == CheckoutSuccessIn(ToLower(contentStr))

\* String(v) for a parsed JSON value
ValueText(v) ==
  CASE v.kind = "str" -> v.text
    [] v.kind = "num" -> PercentJson(v.num)
    [] v.kind = "bool" -> IF v.bool THEN "true" ELSE "false"
    [] OTHER -> "null"

\* structured.key || null, as text
FieldOrNull(obj, key) ==
  IF FieldTruthy(obj, key) THEN ValueText(Field(obj, key)) ELSE "null"

\* an auto-checkout test that looks for the context the chain itself produces
shouldAutoCheckoutWrongContext(s) ==
  /\ Truthy(s.dealData)
  /\ s.dealData.includesCheckout = "true"
  /\ s.workflowContext = "add_to_cart_with_checkout"

shouldAutoCheckout(s) ==
  /\ Truthy(s.dealData)
  /\ s.dealData.includesCheckout = "true"
  /\ s.workflowContext = "add_to_cart_with_deals"
  /\ ~isCheckoutRequest(s)

\* a success fragment that wires the notification node directly and keeps the cart
CheckoutSucceededDirect(keep, annotatedResponses, notificationData) ==
  [keep EXCEPT !.messages = annotatedResponses,
               !.workflowContext = "send_notification",
               !.pendingProduct = NullV,
               !.notificationData = notificationData,
               !.next = "notification_agent"]

\* the fragment of the structured success branch
CheckoutSucceeded(keep, annotatedResponses, notificationData) ==
  [keep EXCEPT !.messages = annotatedResponses,
               !.workflowContext = "send_notification",
               !.pendingProduct = NullV,
               !.cartData = NullV,
               !.notificationData = notificationData,
               !.next = "supervisor"]

\* a failure branch that also empties the cart
CheckoutFailedClearingCart(keep, annotatedResponses, summary) ==
  [keep EXCEPT
     !.messages = annotatedResponses \o
       <<annotateMessage("Checkout failed: " \o summary, "assistant", "cart_and_checkout")>>,
     !.workflowContext = "null",
     !.pendingProduct = NullV,
     !.cartData = NullV,
     !.next = END]

\* the fragment of the structured failure branch: the cart is passed through
CheckoutFailed(keep, annotatedResponses, summary) ==
  [keep EXCEPT
     !.messages = annotatedResponses \o
       <<annotateMessage("Checkout failed: " \o summary, "assistant", "cart_and_checkout")>>,
     !.workflowContext = "null",
     !.pendingProduct = NullV,
     !.next = END]

\* the cart node once the reply is in: contentStr is the text it inspects, lower
\* its lower case, structured its parse, keep the fields passed through
CartDecision(s, annotatedResponses, contentStr, lower, structured, keep) ==
  IF NotRecognizedIn(lower) /\ Truthy(s.pendingProduct)
  THEN NodeResult(
         [keep EXCEPT
            !.messages = annotatedResponses \o
              <<annotateMessage("I couldn't find " \o Quote \o s.pendingProduct.product
                                \o Quote \o " in our catalog. Let me help you find the right product. You can try searching for similar items or browse our catalog.",
                                "assistant", "cart_and_checkout")>>,
            !.workflowContext = "null",
            !.dealData = NullV,
            !.pendingProduct = NullV,
            !.next = END],
         {"cart_agent"}, FALSE)
  ELSE IF structured.ok /\ FieldTruthy(structured, "checkoutStatus")
          /\ FieldText(structured, "checkoutStatus") = "success"
  THEN NodeResult(
         CheckoutSucceeded(
           keep, annotatedResponses,
           Notification(IF FieldTruthy(structured, "summary")
                        THEN ValueText(Field(structured, "summary")) ELSE contentStr,
                        s.cartData,
                        FieldOrNull(structured, "orderId"),
                        FieldOrNull(structured, "total"))),
         {"cart_agent"}, FALSE)
  ELSE IF structured.ok /\ FieldTruthy(structured, "checkoutStatus")
          /\ FieldText(structured, "checkoutStatus") = "failure"
  THEN NodeResult(
         CheckoutFailed(keep, annotatedResponses,
                        IF FieldTruthy(structured, "summary")
                        THEN ValueText(Field(structured, "summary"))
                        ELSE "Unknown reason"),
         {"cart_agent"}, FALSE)
  ELSE IF CheckoutSuccessIn(lower)
  THEN NodeResult(
         [keep EXCEPT
            !.messages = annotatedResponses,
            !.workflowContext = "send_notification",
            !.pendingProduct = NullV,
            !.cartData = NullV,
            !.notificationData = Notification(contentStr, s.cartData, "null", Absent),
            !.next = "supervisor"],
         {"cart_agent"}, FALSE)
  ELSE IF shouldAutoCheckout(s)
  THEN NodeResult(
         [keep EXCEPT
            !.messages = annotatedResponses \o
              <<createProgressMessage("Proceeding to checkout automatically...",
                                      "supervisor")>>,
            !.workflowContext = "add_to_cart_with_checkout",
            !.dealData = DealOver(s.dealData,
                                  [NoDealFields EXCEPT !.includesCheckout = "false"]),
            !.pendingProduct = NullV,
            !.next = "supervisor"],
         {"cart_agent"}, FALSE)
  ELSE NodeResult([keep EXCEPT !.messages = annotatedResponses, !.next = END],
                  {"cart_agent"}, FALSE)

CartInspect(s, annotatedResponses, contentStr, keep) ==
  CartDecision(s, annotatedResponses, contentStr, ToLower(contentStr),
               safeParseJson(contentStr), keep)

cartAndCheckoutNode(s, reply) ==
  CartInspect(s, AnnotateAll(reply.messages, "cart_and_checkout"), ResponseContent(reply),
              [Preserve(s) EXCEPT !.plannerRecommendation = s.plannerRecommendation])

\* a notification fragment that leaves the payload in place
NotificationSaidKeepingPayload(s, text) ==
  [EmptyFragment EXCEPT
     !.messages = <<annotateMessage(text, "assistant", "notification_agent")>>,
     !.userId = s.userId,
     !.conversationId = s.conversationId,
     !.next = END]

\* a notification fragment that hands the payload on again
NotificationSaidWithPayload(s, text) ==
  [EmptyFragment EXCEPT
     !.messages = <<annotateMessage(text, "assistant", "notification_agent")>>,
     !.userId = s.userId,
     !.conversationId = s.conversationId,
     !.notificationData = s.notificationData,
     !.next = END]

\* a notification fragment that hands the turn back to the supervisor
NotificationSaidBackToSupervisor(s, text) ==
  [EmptyFragment EXCEPT
     !.messages = <<annotateMessage(text, "assistant", "notification_agent")>>,
     !.userId = s.userId,
     !.conversationId = s.conversationId,
     !.notificationData = NullV,
     !.next = "supervisor"]

\* the fragment every branch of the notification node returns, around its text
NotificationSaid(s, text) ==
  [EmptyFragment EXCEPT
     !.messages = <<annotateMessage(text, "assistant", "notification_agent")>>,
     !.userId = s.userId,
     !.conversationId = s.conversationId,
     !.notificationData = NullV,
     !.next = END]

\* send: what sendPushoverNotification did: "ok", "rejected" or Throws
notificationAgent(s, send) ==
  IF ~Truthy(s.notificationData)
  THEN NodeResult(NotificationSaid(s, "No notification data to process."), {}, FALSE)
  ELSE IF send = Throws
  THEN NodeResult(NotificationSaid(s, "There was an issue sending the notification, but your order was completed successfully!"),
                  {"pushover"}, FALSE)
  ELSE IF send = "ok"
  THEN NodeResult(NotificationSaid(s, "Notification sent successfully! You should receive a push notification shortly."),
                  {"pushover"}, FALSE)
  ELSE NodeResult(NotificationSaid(s, "Failed to send notification. Your order was completed successfully though!"),
                  {"pushover"}, FALSE)

\* "product" or "product (quantity: n)" as the deals node words it
ProductPhrase(p) ==
  p.product \o (IF p.quantity # 0 THEN " (quantity: " \o NumText(p.quantity) \o ")" ELSE "")

\* the deals node's keyword test for a combined deals-and-cart request
dealsIsComplexWorkflow(lower) ==
  \/ Contains(lower, "check") /\ Contains(lower, "deal") /\ Contains(lower, "add")
  \/ Contains(lower, "if") /\ Contains(lower, "deal")
  \/ Contains(lower, "deal") /\ Contains(lower, "cart")

ConfirmationIn(lower) ==
  ContainsAny(lower, {"would you like", "apply this deal", "interested in", "take advantage"})

requiresConfirmation(responseContent) == ConfirmationIn(ToLower(responseContent))

NoDealsIn(lower) ==
  ContainsAny(lower, {"no current deals", "no deals available", "expired",
                      "unfortunately, there are no"})

noDealsAvailable(responseContent) == NoDealsIn(ToLower(responseContent))

NoProductText ==
  "I need to know which product you're interested in to check for deals. Could you please specify the product name? For example, 'Check deals on apples' or 'Add 8 apples to my cart'."

\* the deals node once the deals agent has replied: lower is the reply content
\* in lower case, isComplexWorkflow the keyword test on the message sent
DealsDecision(s, effectivePending, messageToAgent, responseMessages, responseContent, lower, isComplexWorkflow, keep, calls) ==
  LET autoApplyIntent ==
        Truthy(s.plannerRecommendation) /\ s.plannerRecommendation.autoApplyIntent = "true"
      dealFound ==
        \/ ConfirmationIn(lower)
        \/ /\ isComplexWorkflow
           /\ ~Contains(lower, "no current deals")
           /\ ~Contains(lower, "no deals available")
  IN
  IF dealFound /\ autoApplyIntent
  THEN NodeResult(
         [keep EXCEPT
            !.messages = responseMessages \o
              <<createProgressMessage("Adding items to your cart...", "supervisor")>>,
            !.workflowContext = "add_to_cart_with_deals",
            !.dealData = DealSpread(s.dealData,
                                    [NoDealFields EXCEPT
                                       !.applied = "true",
                                       !.response = responseContent,
                                       !.type = "product_deal",
                                       !.originalIntent = messageToAgent]),
            !.pendingProduct = effectivePending,
            !.next = "supervisor"],
         calls, FALSE)
  ELSE IF dealFound /\ ConfirmationIn(lower)
  THEN NodeResult(
         [keep EXCEPT
            !.messages = responseMessages,
            !.workflowContext = "awaiting_deal_confirmation",
            !.dealData = DealSpread(s.dealData,
                                    [NoDealFields EXCEPT
                                       !.pending = "true",
                                       !.response = responseContent,
                                       !.type = "product_deal"]),
            !.pendingProduct = effectivePending,
            !.next = END],
         calls, FALSE)
  ELSE IF dealFound
  THEN NodeResult(
         [keep EXCEPT
            !.messages = responseMessages,
            !.workflowContext = "add_to_cart_with_deals",
            !.dealData = DealSpread(s.dealData,
                                    [NoDealFields EXCEPT
                                       !.applied = "true",
                                       !.response = responseContent,
                                       !.type = "product_deal"]),
            !.pendingProduct = effectivePending,
            !.next = "cart_and_checkout"],
         calls, FALSE)
  ELSE IF NoDealsIn(lower)
  THEN NodeResult(
         [keep EXCEPT
            !.messages = responseMessages,
            !.workflowContext = "null",
            !.dealData = DealSpread(s.dealData,
                                    [NoDealFields EXCEPT
                                       !.applied = "false",
                                       !.response = responseContent,
                                       !.type = "no_deals_found"]),
            !.pendingProduct = NullV,
            !.next = END],
         calls, FALSE)
  \* the function ends without a return statement: no fragment at all
  ELSE NodeResult(EmptyFragment, calls, FALSE)

\* the deals node once the message for the deals agent is composed
DealsInvoke(s, o, effectivePending, messageToAgent, lowerMessage, responseContent, keep, calls) ==
  DealsDecision(s, effectivePending, messageToAgent, AnnotateAll(o.reply.messages, "deals"),
                responseContent, ToLower(responseContent),
                dealsIsComplexWorkflow(lowerMessage)
                  \/ Contains(lowerMessage, "complex workflow request"),
                keep, calls \cup {"deals_agent"})

\* the message sent to the deals agent
DealsMessage(s, effectivePending, lastContent, lowerLast) ==
  IF s.workflowContext = "check_deals"
  THEN (IF dealsIsComplexWorkflow(lowerLast)
        THEN "Complex workflow request: " \o Quote \o lastContent \o Quote
             \o ". User wants to check for deals on " \o ProductPhrase(effectivePending)
             \o " and conditionally add to cart if deals are available. Please check for deals and present options clearly."
        ELSE "User wants to add to cart: " \o Quote \o lastContent \o Quote
             \o ". Check for deals on " \o ProductPhrase(effectivePending))
  ELSE lastContent

\* the deals node once the product to look up is settled (NullV: none)
DealsWithProduct(s, o, effectivePending, messageToAgent, keep, calls) ==
  IF ~Truthy(effectivePending)
  THEN NodeResult(
         [keep EXCEPT
            !.messages = <<annotateMessage(NoProductText, "assistant", "deals")>>,
            !.workflowContext = "null",
            !.pendingProduct = NullV,
            !.next = END],
         calls, FALSE)
  ELSE DealsInvoke(s, o, effectivePending, messageToAgent, ToLower(messageToAgent),
                   IF o.reply.content \in {Absent, ""} THEN "No deals found"
                   ELSE o.reply.content,
                   keep, calls)

Extracted(p) == Truthy(p) /\ p.product # ""

\* first, second: what extraction gives for the most recent and the one-before
\* user message (NullV when there is no such message); the second is tried
\* only when the first gave nothing
DealsExtract(s, o, userMessages, first, second, lastContent, keep) ==
  IF Truthy(s.pendingProduct)
  THEN DealsWithProduct(s, o, s.pendingProduct,
                        DealsMessage(s, s.pendingProduct, lastContent, ToLower(lastContent)),
                        keep, {})
  ELSE IF Extracted(first)
  THEN DealsWithProduct(s, o, first,
                        DealsMessage(s, first, lastContent, ToLower(lastContent)),
                        keep, {"extraction"})
  ELSE DealsWithProduct(
         s, o, IF Extracted(second) THEN second ELSE NullV,
         IF Extracted(second)
         THEN DealsMessage(s, second, lastContent, ToLower(lastContent)) ELSE lastContent,
         keep,
         IF \E i \in 1..Len(userMessages) :
              i >= Len(userMessages) - 1 /\ userMessages[i].content # ""
         THEN {"extraction"} ELSE {})

DealsRecent(s, o, userMessages, n) ==
  DealsExtract(s, o, userMessages,
               IF n >= 1 THEN extractProductInfo(userMessages[n].content, o.extract)
               ELSE NullV,
               IF n >= 2 THEN extractProductInfo(userMessages[n - 1].content, o.extract2)
               ELSE NullV,
               LastMessage(s.messages).content,
               [Preserve(s) EXCEPT !.plannerRecommendation = s.plannerRecommendation])

\* o.extract, o.extract2: the extraction oracle's answers for the most recent
\* and the one-before user message; o.reply: the deals agent's reply
dealsNode(s, o) ==
  DealsRecent(s, o, SelectSeq(s.messages, LAMBDA m : m.role = "user"),
              Len(SelectSeq(s.messages, LAMBDA m : m.role = "user")))

(***************************************************************************)
(* The planner node and its conditional edge                               *)
(***************************************************************************)

\* JSON.stringify of a PlanRecommendation: keys in insertion order, a key whose
\* value is undefined is left out
StringifyPlan(plan) ==
  "{" \o Quote \o "action" \o Quote \o ":" \o Quote \o plan.action \o Quote
  \o (IF plan.task # Absent
      THEN "," \o Quote \o "task" \o Quote \o ":" \o Quote \o plan.task \o Quote ELSE "")
  \o "," \o Quote \o "confidence" \o Quote \o ":" \o PercentJson(plan.confidence)
  \o "," \o Quote \o "reasoning" \o Quote \o ":" \o Quote \o plan.reasoning \o Quote
  \o (IF plan.autoApplyIntent # Absent
      THEN "," \o Quote \o "autoApplyIntent" \o Quote \o ":" \o plan.autoApplyIntent ELSE "")
  \o "}"

\* validateAndNormalizePlan without the low-confidence demotion
NormalizedPlanKeepingAction(rawAction, task, confidence, reasoning, autoApplyIntent, raw) ==
  IF rawAction \notin {"direct_response", "delegate"}
  THEN Plan("delegate", Absent, 50, IF task # Absent THEN task ELSE raw,
            "Planner returned invalid or missing action", Absent)
  ELSE IF rawAction = "direct_response" /\ task = Absent /\ reasoning = ""
  THEN Plan("delegate", Absent, IF confidence < 60 THEN confidence ELSE 60, Absent,
            "Converted to delegate because direct_response lacked content", autoApplyIntent)
  ELSE Plan(rawAction, Absent, confidence, task, reasoning, autoApplyIntent)

NormalizedPlan(rawAction, task, confidence, reasoning, autoApplyIntent, raw) ==
  IF rawAction \notin {"direct_response", "delegate"}
  THEN Plan("delegate", Absent, 50, IF task # Absent THEN task ELSE raw,
            "Planner returned invalid or missing action", Absent)
  ELSE IF rawAction = "direct_response" /\ task = Absent /\ reasoning = ""
  THEN Plan("delegate", Absent, IF confidence < 60 THEN confidence ELSE 60, Absent,
            "Converted to delegate because direct_response lacked content", autoApplyIntent)
  ELSE IF confidence < 70 /\ rawAction = "direct_response"
  THEN Plan("delegate", Absent, confidence, task,
            "Low confidence classification - delegating for safety. Original: " \o reasoning,
            autoApplyIntent)
  ELSE Plan(rawAction, Absent, confidence, task, reasoning, autoApplyIntent)

\* input: the parsed plan, read with the planner's own defaulting of confidence,
\* action and reasoning; raw: the text it was parsed from
validateAndNormalizePlan(input, raw) ==
  NormalizedPlan(
    IF ~FieldTruthy(input, "action") THEN "delegate" ELSE ToLower(FieldText(input, "action")),
    IF FieldTruthy(input, "task") THEN ValueText(Field(input, "task")) ELSE Absent,
    IF HasField(input, "confidence") /\ Field(input, "confidence").kind = "num"
       /\ FieldTruthy(input, "confidence")
    THEN Clamp01(Field(input, "confidence").num) ELSE 50,
    IF FieldTruthy(input, "reasoning") THEN ValueText(Field(input, "reasoning")) ELSE "",
    IF HasField(input, "autoApplyIntent") /\ Field(input, "autoApplyIntent").kind = "bool"
       /\ Field(input, "autoApplyIntent").bool
    THEN "true" ELSE "false",
    raw)

PlannerMessage(plan) == Msg("assistant", "planner", StringifyPlan(plan), FALSE, FALSE, plan)

\* the result payload around the final plan
PlannerPayload(s, finalPlan) ==
  NodeResult(
    [EmptyFragment EXCEPT !.messages = <<PlannerMessage(finalPlan)>>,
                          !.plannerRecommendation = finalPlan,
                          !.userId = s.userId,
                          !.conversationId = s.conversationId,
                          !.workflowContext = s.workflowContext,
                          !.pendingProduct = s.pendingProduct,
                          !.dealData = s.dealData,
                          !.cartData = s.cartData,
                          !.notificationData = s.notificationData,
                          !.delegationDepth = s.delegationDepth],
    {"planner"}, FALSE)

\* JSON.parse(t) is a primitive and truthy: true, a number other than 0, or a
\* non-empty string
TruthyPrimitive(t) ==
  \/ t = "true"
  \/ IsNumberToken(t) /\ NumberPercent(t) # 0
  \/ /\ Len(t) > 2
     /\ CharAt(t, 1) = Quote
     /\ NextOf(t, 2, {Quote}) = Len(t)

\* JSON.parse(t) is a primitive and falsy: null, false, 0 or the empty string
FalsyPrimitive(t) ==
  \/ t \in {"null", "false", Quote \o Quote}
  \/ IsNumberToken(t) /\ NumberPercent(t) = 0

\* the plan the parsing step leaves when JSON.parse threw or gave a falsy value
UnparsedPlan(answer, jsonText) ==
  Plan("delegate", Absent, 50, answer,
       IF FalsyPrimitive(jsonText)
       THEN "Planner returned no plan; delegating for safety."
       ELSE "Could not parse JSON plan from planner LLM; delegating for safety.",
       "false")

\* plan.confidence = ..., plan.action = ..., plan.reasoning = ... are assignments
\* outside the try block, in module (strict) code: on a truthy primitive the
\* first of them throws a TypeError, which leaves the planner
PlannerParsed(s, answer, jsonText, parsed) ==
  IF parsed.ok THEN PlannerPayload(s, validateAndNormalizePlan(parsed, jsonText))
  ELSE IF TruthyPrimitive(jsonText) THEN NodeResult(EmptyFragment, {"planner"}, TRUE)
  ELSE PlannerPayload(s, UnparsedPlan(answer, jsonText))

\* text.slice(text.indexOf('{')), the whole text when it has no brace
JsonTail(text, jsonStart) ==
  IF jsonStart > 0 THEN SubSeq(text, jsonStart, Len(text)) ELSE text

PlannerFallback(fallbackPlan) ==
  NodeResult([EmptyFragment EXCEPT !.messages = <<PlannerMessage(fallbackPlan)>>,
                                   !.plannerRecommendation = fallbackPlan],
             {"planner"}, FALSE)

\* answer: the Planner Oracle's answer; the state holds at least one message
planner(s, answer) ==
  IF answer = Throws
  THEN PlannerFallback(Plan("delegate", Absent, 50, Absent,
                            "LLM invocation error: request failed", Absent))
  ELSE PlannerParsed(s, answer, JsonTail(answer, IndexOf(answer, "{")),
                     JsonParse(JsonTail(answer, IndexOf(answer, "{"))))

\* routePlanner: the destination, and the message list after the edge has
\* rewritten the content of the last message (the message object is shared with
\* the state; the fields the edge assigns on its state argument are not)
RouteOn(s, n, recommendation) ==
  IF n > 0 /\ Truthy(recommendation)
  THEN (IF recommendation.action = "direct_response"
        THEN [dest |-> END,
              messages |-> IF recommendation.task \notin {Absent, ""}
                           THEN [s.messages EXCEPT ![n].content = recommendation.task]
                           ELSE s.messages]
        ELSE [dest |-> "supervisor", messages |-> s.messages])
  ELSE [dest |-> END, messages |-> s.messages]

routePlanner(s) ==
  RouteOn(s, Len(s.messages), IF Len(s.messages) > 0 THEN LastMessage(s.messages).rec
                              ELSE Undef)

\* the state object routePlanner was called with, after the call: the fields
\* the delegate branch assigns on it, and the rewritten last message
StoredOn(s, n, recommendation) ==
  IF n > 0 /\ Truthy(recommendation) /\ recommendation.action = "delegate"
  THEN [s EXCEPT !.plannerRecommendation = recommendation,
                 !.delegationDepth = (IF @ >= 0 THEN @ ELSE 0) + 1]
  ELSE [s EXCEPT !.messages = RouteOn(s, n, recommendation).messages]

routePlannerArgument(s) ==
  StoredOn(s, Len(s.messages), IF Len(s.messages) > 0 THEN LastMessage(s.messages).rec
                               ELSE Undef)

(***************************************************************************)
(* Answers of the oracles and replies of the specialists                   *)
(***************************************************************************)

Q(t) == Quote \o t \o Quote
KV(k, v) == Q(k) \o ":" \o v

PlanJson(action, task, confidence, autoApply) ==
  "{" \o KV("action", Q(action)) \o "," \o KV("task", Q(task)) \o ","
  \o KV("confidence", confidence) \o "," \o KV("reasoning", Q("classified")) \o ","
  \o KV("autoApplyIntent", autoApply) \o "}"

ContinuationJson(isContinuation, type, confidence) ==
  "{" \o KV("isContinuation", isContinuation) \o "," \o KV("continuationType", Q(type))
  \o "," \o KV("confidence", confidence) \o "}"

ProductJson(product, quantity) ==
  "{" \o KV("product", Q(product)) \o "," \o KV("quantity", quantity) \o "}"

CheckoutJson(status, orderId, summary) ==
  "{" \o KV("checkoutStatus", Q(status)) \o "," \o KV("orderId", orderId) \o ","
  \o KV("summary", summary) \o "}"

ComplexRequest == "check deals and add 2 apples to cart then checkout"

UserTexts == {ComplexRequest, "checkout", "hello"}

PlannerAnswers ==
  {PlanJson("delegate", ComplexRequest, "0.9", "true"),
   PlanJson("delegate", ComplexRequest, "0.8", "false"),
   PlanJson("direct_response", "Hello! How can I help?", "0.9", "false"),
   Throws}

ContinuationAnswers ==
  {ContinuationJson("false", "new_request", "0.9"),
   ContinuationJson("true", "checkout_flow", "0.9"),
   Throws}

RouteAnswers == {"deals", " Cart_and_checkout ", "catalog", "payment", "shipping", Throws}

ExtractAnswers == {ProductJson("apples", "2"), "null"}

DealsReplies ==
  {Reply(<<"20% off apples this week">>, Absent),
   Reply(<<"20% off apples">>, "Would you like to apply this deal?"),
   Reply(<<"nothing on offer">>, "There are no current deals for apples")}

OrderSuccess == CheckoutJson("success", Q("ORD-1"), Q("2 apples ordered"))

\* a structured success whose summary mentions an item that was not found
OrderSuccessNoted ==
  CheckoutJson("success", Q("ORD-2"), Q("2 apples ordered, 1 item not found"))

CartReplies ==
  {Reply(<<OrderSuccess>>, Absent),
   Reply(<<OrderSuccessNoted>>, Absent),
   Reply(<<"Added 2 apples to your cart">>, Absent),
   Reply(<<CheckoutJson("failure", "null", Q("card declined"))>>, Absent),
   Reply(<<CheckoutJson("failure", "null", Q("product not found"))>>, Absent),
   Reply(<<"Sorry, product not found">>, Absent)}

PlainReplies == {Reply(<<"Here is what I found">>, Absent)}

SendResults == {"ok", "rejected", Throws}

(***************************************************************************)
(* The conversation graph, run turn by turn by SupervisorAgent.chat        *)
(***************************************************************************)

VARIABLES
  st,       \* the ConversationState held by the checkpointer
  pc,       \* the node to run next; "idle" between turns
  steps,    \* node hops taken in the current turn
  turn,     \* turns started so far
  outcome,  \* how the last finished turn ended: "none", "ok", or, when chat()
            \* answered with its apology, "failed" (a node threw or its next
            \* hop was no destination) or "cut_off" (the step budget ran out)
            \* or "rejected" (chat() itself threw); after clearSession(),
            \* "cleared" when it completed and "clear_rejected" when it threw
  trace,    \* the nodes run in the current turn, in order
  last,     \* the last node call: node, state it read, fragment, oracles invoked
  owed,     \* the orderId of a structured checkout success of this turn that
            \* notification_agent has not been handed yet; NoOrder if none
  resolved, \* what the last finished chat() resolved to: its last message and next
  mem       \* the module-level memory of the process: clock, result caches and
            \* the record of the detector calls made

vars == <<st, pc, steps, turn, outcome, trace, last, owed, resolved, mem>>

RecursionLimit == 5
MaxTurns == 2
NoOrder == "<none>"

\* the channels before the first turn writes them
EmptyState ==
  [messages |-> <<>>, next |-> "undefined", userId |-> "undefined",
   conversationId |-> "undefined", cartData |-> Undef, workflowContext |-> "undefined",
   dealData |-> Undef, delegationDepth |-> 0, pendingProduct |-> Undef,
   notificationData |-> Undef, plannerRecommendation |-> Undef]

NoCall == [node |-> "none", pre |-> EmptyState, frag |-> EmptyFragment, calls |-> {},
           threw |-> FALSE, reply |-> ""]

Call(node, r, reply) ==
  [node |-> node, pre |-> st, frag |-> r.frag, calls |-> r.calls, threw |-> r.threw,
   reply |-> reply]

\* the answer of chat()'s catch block
Apology == "I apologize, but I encountered an error processing your request. Please try again."

NotResolved == [message |-> "", next |-> "undefined"]

\* a chat() whose catch block lets the error through
chatRethrowing(failed, result) ==
  IF failed THEN [message |-> Throws, next |-> "undefined"]
  ELSE [message |-> LastMessage(result.messages).content, next |-> result.next]

\* what chat() resolves to: the final state of the graph run, or, when the run
\* threw (a node failed, no destination, step budget spent), the apology
chat(failed, result) ==
  IF failed THEN [message |-> Apology, next |-> END]
  ELSE [message |-> LastMessage(result.messages).content, next |-> result.next]

\* the module-level memory when the process starts: empty caches, no call made
\* threadMaps: SupervisorAgent reads conversationThreadMap and
\* conversationThreadTimestamps, which no source file declares or imports.
\* Where nothing else defines them as globals ("undeclared") their first use
\* throws a ReferenceError; "declared" stands for a build that defines them as
\* Maps, of which conversationThreadMap is never written
NoSession == [userId |-> "<none>", conversationId |-> "<none>"]

NoMem ==
  [now |-> 0, supervisorLlmCache |-> {}, continuationCache |-> {}, calls |-> <<>>,
   threadMaps |-> "undeclared", recursionLimit |-> RecursionLimit,
   plannerCache |-> {}, plannerCalls |-> <<>>, invalidated |-> NoSession,
   addToCartCallCounter |-> {}, timers |-> {}, attempts |-> <<>>, addRequests |-> 0,
   checkouts |-> 0, deliveries |-> 0]

\* getThreadId(conversationId) completes; it reads conversationThreadMap
getThreadIdReturns(m) == m.threadMaps = "declared"

Init ==
  /\ st = EmptyState
  /\ pc = "idle"
  /\ steps = 0
  /\ turn = 0
  /\ outcome = "none"
  /\ trace = <<>>
  /\ last = NoCall
  /\ owed = NoOrder
  /\ resolved = NotResolved
  /\ mem \in {NoMem, [NoMem EXCEPT !.threadMaps = "declared"]}

\* the destinations each node's conditional edge can resolve
SupervisorEdges == {"catalog", "cart_and_checkout", "payment", "deals", "notification_agent"}
SpecialistEdges == {"supervisor", END}

\* chat(message) where getThreadId throws: the call is made before chat()'s try
\* block, so chat() rejects and the graph is not run
ChatRejected(text) ==
  /\ pc = "idle"
  /\ turn < MaxTurns
  /\ ~getThreadIdReturns(mem)
  /\ turn' = turn + 1
  /\ outcome' = "rejected"
  /\ resolved' = [message |-> Throws, next |-> "undefined"]
  /\ UNCHANGED <<st, pc, steps, trace, last, owed, mem>>

\* clearSession(): getThreadId is called before the try block; after it the
\* maps are cleaned and this.memorySaver is replaced by a new MemorySaver, but
\* the compiled graph keeps the checkpointer it was compiled with in the
\* constructor, so the checkpointed state is the same as before
ClearSession ==
  /\ pc = "idle"
  /\ turn > 0
  /\ outcome \notin {"cleared", "clear_rejected"}
  /\ outcome' = IF getThreadIdReturns(mem) THEN "cleared" ELSE "clear_rejected"
  /\ UNCHANGED <<st, pc, steps, turn, trace, last, owed, resolved, mem>>

\* chat(message): the input is merged into the checkpoint and the graph starts
\* at the planner
StartTurn(text) ==
  /\ pc = "idle"
  /\ turn < MaxTurns
  /\ getThreadIdReturns(mem)
  /\ st' = MergeFragment(st, [EmptyFragment EXCEPT
                                !.messages = <<annotateMessage(text, "user", "undefined")>>,
                                !.userId = "u1",
                                !.conversationId = "c1",
                                !.next = ""])
  /\ pc' = "planner"
  /\ steps' = 0
  /\ turn' = turn + 1
  /\ outcome' = "none"
  /\ trace' = <<>>
  /\ owed' = NoOrder
  /\ resolved' = NotResolved
  /\ mem' = [mem EXCEPT !.addRequests = 0]
  /\ UNCHANGED last

\* the cart node, run on s, asks the cart agent to add the pending product
AddRequested(s) == s.workflowContext = "add_to_cart_with_deals" /\ Truthy(s.pendingProduct)

\* the cart node reports a successful checkout: it hands on a notification payload
CheckoutReported(node, r) ==
  node = "cart_and_checkout" /\ ~r.threw /\ Truthy(r.frag.notificationData)

\* One hop: the node's fragment is merged and its edge resolved; a node that
\* throws, or an edge that resolves to no destination, fails the turn, which
\* chat() answers with an apology, and the hop's fragment is not committed
HopTo(node, r, merged, routable, reply) ==
  /\ pc = node
  /\ steps < mem.recursionLimit
  /\ steps' = steps + 1
  /\ trace' = Append(trace, node)
  /\ last' = Call(node, r, reply)
  /\ st' = IF routable THEN merged ELSE st
  /\ pc' = IF routable /\ merged.next # END THEN merged.next ELSE "idle"
  /\ outcome' = IF ~routable THEN "failed"
                ELSE IF merged.next = END THEN "ok" ELSE outcome
  /\ resolved' = IF ~routable THEN chat(TRUE, st)
                 ELSE IF merged.next = END THEN chat(FALSE, merged) ELSE resolved
  /\ mem' = [mem EXCEPT !.addRequests = IF node = "cart_and_checkout" /\ AddRequested(st)
                                        THEN @ + 1 ELSE @,
                         !.checkouts = IF CheckoutReported(node, r) THEN @ + 1 ELSE @,
                         !.deliveries = IF "pushover" \in r.calls THEN @ + 1 ELSE @]
  /\ UNCHANGED turn

HopMerged(node, r, merged, reply, edges) ==
  HopTo(node, r, merged, ~r.threw /\ merged.next \in edges, reply)

Hop(node, r, reply, edges) == HopMerged(node, r, MergeFragment(st, r.frag), reply, edges)

\* the planner's hop: its edge is routePlanner, which reads the merged state
PlannerRouted(r, merged, route, answer) ==
  /\ pc = "planner"
  /\ steps < mem.recursionLimit
  /\ steps' = steps + 1
  /\ trace' = Append(trace, "planner")
  /\ last' = Call("planner", r, answer)
  /\ st' = IF r.threw THEN st ELSE [merged EXCEPT !.messages = route.messages]
  /\ pc' = IF r.threw \/ route.dest = END THEN "idle" ELSE route.dest
  /\ outcome' = IF r.threw THEN "failed" ELSE IF route.dest = END THEN "ok" ELSE outcome
  /\ resolved' = IF r.threw THEN chat(TRUE, st)
                 ELSE IF route.dest = END
                      THEN chat(FALSE, [merged EXCEPT !.messages = route.messages])
                      ELSE resolved
  /\ UNCHANGED <<turn, owed, mem>>

PlannerMerged(r, merged, answer) == PlannerRouted(r, merged, routePlanner(merged), answer)

PlannerRan(r, answer) == PlannerMerged(r, MergeFragment(st, r.frag), answer)

PlannerStep(answer) ==
  /\ pc = "planner"
  /\ PlannerRan(planner(st, answer), answer)

SupervisorStep(o) ==
  /\ pc = "supervisor"
  /\ Hop("supervisor", supervisor(st, o), "", SupervisorEdges)
  /\ UNCHANGED owed

CatalogStep(reply) ==
  /\ Hop("catalog", catalogNode(st, reply), ResponseContent(reply), SpecialistEdges)
  /\ UNCHANGED owed

\* payment has an unconditional edge to the end of the turn
PaymentDone(r, merged, reply) ==
  /\ steps < mem.recursionLimit
  /\ steps' = steps + 1
  /\ trace' = Append(trace, "payment")
  /\ last' = Call("payment", r, ResponseContent(reply))
  /\ st' = merged
  /\ pc' = "idle"
  /\ outcome' = "ok"
  /\ resolved' = chat(FALSE, merged)
  /\ UNCHANGED <<turn, owed, mem>>

PaymentRan(r, reply) == PaymentDone(r, MergeFragment(st, r.frag), reply)

PaymentStep(reply) ==
  /\ pc = "payment"
  /\ PaymentRan(paymentNode(st, reply), reply)

DealsStep(o) ==
  /\ pc = "deals"
  /\ Hop("deals", dealsNode(st, o), o.reply.content, SpecialistEdges)
  /\ UNCHANGED owed

\* the orderId of a structured success reply; NoOrder for any other reply
OrderOf(s, lower, structured) ==
  IF /\ ~(NotRecognizedIn(lower) /\ Truthy(s.pendingProduct))
     /\ structured.ok
     /\ FieldText(structured, "checkoutStatus") = "success"
  THEN FieldOrNull(structured, "orderId") ELSE NoOrder

StructuredOrder(s, reply) ==
  OrderOf(s, ToLower(ResponseContent(reply)), safeParseJson(ResponseContent(reply)))

Owing(order) == IF order # NoOrder THEN order ELSE owed

CartStep(reply) ==
  /\ pc = "cart_and_checkout"
  /\ Hop("cart_and_checkout", cartAndCheckoutNode(st, reply), ResponseContent(reply),
         SpecialistEdges)
  /\ owed' = Owing(StructuredOrder(st, reply))

NotificationStep(send) ==
  /\ Hop("notification_agent", notificationAgent(st, send), send, SpecialistEdges)
  /\ owed' = IF Truthy(st.notificationData) /\ st.notificationData.orderId = owed
             THEN NoOrder ELSE owed

\* the step budget is spent while a node is still due: the turn is aborted
BudgetAbort ==
  /\ pc # "idle"
  /\ steps >= mem.recursionLimit
  /\ pc' = "idle"
  /\ outcome' = "cut_off"
  /\ resolved' = chat(TRUE, st)
  /\ UNCHANGED <<st, steps, turn, trace, last, owed, mem>>

SupervisorOracles ==
  [cont : ContinuationAnswers, route : RouteAnswers, extract : ExtractAnswers]

DealsOracles ==
  [extract : ExtractAnswers, extract2 : ExtractAnswers, reply : DealsReplies]

Next ==
  \/ \E text \in UserTexts : StartTurn(text)
  \/ \E text \in UserTexts : ChatRejected(text)
  \/ ClearSession
  \/ \E answer \in PlannerAnswers : PlannerStep(answer)
  \/ \E o \in SupervisorOracles : SupervisorStep(o)
  \/ \E reply \in PlainReplies : CatalogStep(reply)
  \/ \E reply \in PlainReplies : PaymentStep(reply)
  \/ \E o \in DealsOracles : DealsStep(o)
  \/ \E reply \in CartReplies : CartStep(reply)
  \/ \E send \in SendResults : NotificationStep(send)
  \/ BudgetAbort

Spec == Init /\ [][Next]_vars

\* the compiled workflow run without chat()'s recursion_limit of 5: the graph
\* runner's own default applies
DefaultRecursionLimit == 25

LongRunInit ==
  /\ st = EmptyState
  /\ pc = "idle"
  /\ steps = 0
  /\ turn = 0
  /\ outcome = "none"
  /\ trace = <<>>
  /\ last = NoCall
  /\ owed = NoOrder
  /\ resolved = NotResolved
  /\ mem = [NoMem EXCEPT !.threadMaps = "declared",
                         !.recursionLimit = DefaultRecursionLimit]

\* the steps of the graph; a turn that exhausts the limit stays where it is
\* the oracles of a long turn: the Continuation Oracle may also take the last
\* message for a deal confirmation or an add request
LongRunOracles ==
  SupervisorOracles
  \cup [cont : {ContinuationJson("true", "deal_confirmation", "0.9"),
                ContinuationJson("true", "add_to_cart", "0.9")},
        route : {"deals"}, extract : {"null"}]

LongRunNext ==
  \/ \E text \in UserTexts : StartTurn(text)
  \/ ClearSession
  \/ \E answer \in PlannerAnswers : PlannerStep(answer)
  \/ \E o \in LongRunOracles : SupervisorStep(o)
  \/ \E reply \in PlainReplies : CatalogStep(reply)
  \/ \E reply \in PlainReplies : PaymentStep(reply)
  \/ \E o \in DealsOracles : DealsStep(o)
  \/ \E reply \in CartReplies : CartStep(reply)
  \/ \E send \in SendResults : NotificationStep(send)

LongRunSpec == LongRunInit /\ [][LongRunNext]_vars

(***************************************************************************)
(* The nodes called one at a time, as the unit tests of the repository     *)
(* call them: on a ConversationState drawn from a bounded set of typed     *)
(* states, with the oracle answers and specialist replies of the           *)
(* vocabulary above.  pc is "unit" before the call and "done" after it; st *)
(* is the state before and, once the call is done, the state with the      *)
(* node's fragment merged; last is the call.                               *)
(***************************************************************************)

MaxAppendPermanent == 11
MaxAppendEphemeral == 6

User(text) == annotateMessage(text, "user", "undefined")

PermanentRun(n) == [i \in 1..n |-> annotateMessage("Here is what I found", "assistant", "catalog")]
EphemeralRun(n) == [i \in 1..n |-> createProgressMessage("Evaluating request...", "supervisor")]

DelegatePlan == Plan("delegate", Absent, 90, ComplexRequest, "classified", "true")

\* message lists a node can be handed: one user message, a user message
\* followed by the planner's message, and a list that fills both caps
NodeMessages ==
  {<<User("Yes please")>>, <<User("no thanks")>>, <<User("checkout")>>,
   <<User(ComplexRequest)>>,
   <<User(ComplexRequest), PlannerMessage(DelegatePlan)>>}

NodeContexts ==
  {"undefined", "awaiting_deal_confirmation", "add_to_cart_with_deals",
   "add_to_cart_with_checkout", "check_deals", "send_notification"}

NodeDeals ==
  {NullV,
   [NoDealFields EXCEPT !.pending = "true", !.type = "product_deal",
                        !.response = "Would you like to apply this deal?"],
   [NoDealFields EXCEPT !.applied = "true", !.type = "product_deal",
                        !.response = "20% off apples", !.includesCheckout = "true",
                        !.workflowType = "deals_to_cart_to_checkout"]}

NodeState(messages, ctx, pending, deal, cart, plan) ==
  [EmptyState EXCEPT
     !.messages = messages,
     !.next = "",
     !.userId = "u1",
     !.conversationId = "c1",
     !.workflowContext = ctx,
     !.pendingProduct = pending,
     !.dealData = deal,
     !.cartData = cart,
     !.plannerRecommendation = plan,
     !.notificationData =
       IF ctx = "send_notification"
       THEN Notification("2 apples ordered", cart, "ORD-1", "null") ELSE NullV]

NodeStates ==
  {NodeState(messages, ctx, pending, deal, cart, plan) :
     messages \in NodeMessages, ctx \in NodeContexts,
     pending \in {NullV, Product("apples", 2)}, deal \in NodeDeals,
     cart \in {NullV, Cart("2 apples")}, plan \in {Undef, DelegatePlan}}

\* states whose message list is at, or just under, the caps of the reducer
CapStates ==
  {NodeState(PermanentRun(p) \o <<User("checkout")>> \o EphemeralRun(e),
             "undefined", NullV, NullV, NullV, Undef) :
     p \in {KeepPermanent - 2, KeepPermanent - 1}, e \in {KeepEphemeral - 1, KeepEphemeral}}

\* lists a fragment can append: runs of permanent and of ephemeral messages,
\* in either order, up to more than a cap in one fragment
AppendedLists ==
  {PermanentRun(p) \o EphemeralRun(e) :
     p \in {0, 1, MaxAppendPermanent}, e \in {0, 1, MaxAppendEphemeral}}
  \cup
  {EphemeralRun(e) \o PermanentRun(p) :
     p \in {1, MaxAppendPermanent}, e \in {1, MaxAppendEphemeral}}

NodeInit ==
  /\ st \in NodeStates \cup CapStates
  /\ pc = "unit"
  /\ steps = 0
  /\ turn = 0
  /\ outcome = "none"
  /\ trace = <<>>
  /\ last = NoCall
  /\ owed = NoOrder
  /\ resolved = NotResolved
  /\ mem = NoMem

\* one call of a node function, its fragment merged as the graph runner does
Unit(node, r, reply) ==
  /\ pc = "unit"
  /\ pc' = "done"
  /\ last' = Call(node, r, reply)
  /\ st' = IF r.threw THEN st ELSE MergeFragment(st, r.frag)
  /\ UNCHANGED <<steps, turn, outcome, trace, owed, resolved, mem>>

\* answers of the Planner Oracle that are not a well-formed confident plan
PlannerOddAnswers ==
  {"I think you should do this: action: delegate, targetAgent: catalog",
   PlanJson("escalate", "hello", "0.9", "false"),
   PlanJson("direct_response", "Hello! How can I help?", "0.65", "false"),
   PlanJson("direct_response", "Hello! How can I help?", "0.5", "false"),
   "{" \o KV("action", Q("direct_response")) \o "," \o KV("confidence", "0.9") \o "}",
   "{" \o KV("action", Q("direct_response")) \o "," \o KV("confidence", "0.65") \o "}",
   "{" \o KV("action", Q("delegate")) \o "," \o KV("targetAgent", Q("catalog")) \o ","
       \o KV("task", Q("hello")) \o "," \o KV("confidence", "0.9") \o "}",
   "{" \o KV("action", Q("delegate")) \o "," \o KV("targetAgent", Q("unknown_agent")) \o ","
       \o KV("task", Q("hello")) \o "," \o KV("confidence", "0.9") \o "}",
   Q("Sorry, I cannot help with that."),
   "null"}

UnitPlanner(answer) ==
  /\ pc = "unit"
  /\ Unit("planner", planner(st, answer), answer)

UnitSupervisor(o) ==
  /\ pc = "unit"
  /\ Unit("supervisor", supervisor(st, o), LastMessage(st.messages).content)

UnitCatalog(reply) ==
  /\ pc = "unit"
  /\ Unit("catalog", catalogNode(st, reply), ResponseContent(reply))

UnitPayment(reply) ==
  /\ pc = "unit"
  /\ Unit("payment", paymentNode(st, reply), ResponseContent(reply))

UnitDeals(o) ==
  /\ pc = "unit"
  /\ Unit("deals", dealsNode(st, o), o.reply.content)

UnitCart(reply) ==
  /\ pc = "unit"
  /\ Unit("cart_and_checkout", cartAndCheckoutNode(st, reply), ResponseContent(reply))

UnitNotification(send) ==
  /\ pc = "unit"
  /\ Unit("notification_agent", notificationAgent(st, send), send)

\* the messages reducer alone, on a fragment that carries only messages
UnitMerge(appended) ==
  /\ pc = "unit"
  /\ Unit("merge", NodeResult([EmptyFragment EXCEPT !.messages = appended], {}, FALSE), "")

\* strings a fragment can carry as workflowContext: the enumerated ones, two
\* that are not enumerated, and the empty string
ContextInputs == ValidContexts \cup {"checkout_done", "Check_Deals", ""}

\* the workflowContext reducer alone, on a fragment that carries only a context
UnitContext(ctx) ==
  /\ pc = "unit"
  /\ Unit("merge", NodeResult([EmptyFragment EXCEPT !.workflowContext = ctx], {}, FALSE), ctx)

\* recommendations that name a target agent, as the supervisor's planner block
\* reads them: a valid specialist with high, threshold and low confidence, the
\* supervisor itself, and a name that is no node
TargetedPlans ==
  {Plan("delegate", "catalog", 90, "find apples", "classified", "false"),
   Plan("delegate", "catalog", 70, "find apples", "classified", "false"),
   Plan("delegate", "cart_and_checkout", 60, "checkout", "classified", "false"),
   Plan("delegate", "supervisor", 90, "find apples", "classified", "false"),
   Plan("delegate", "unknown_agent", 90, "find apples", "classified", "false")}

\* the oracles behind the supervisor when it is handed a targeted plan: every
\* continuation answer, the routing oracle naming deals
PlannedOracles ==
  {o \in SupervisorOracles : o.route = "deals" /\ o.extract = "null"}

\* a node called on a state object arg
UnitOn(node, arg, r, reply) ==
  /\ pc' = "done"
  /\ last' = [node |-> node, pre |-> arg, frag |-> r.frag, calls |-> r.calls,
              threw |-> r.threw, reply |-> reply]
  /\ st' = IF r.threw THEN arg ELSE MergeFragment(arg, r.frag)
  /\ UNCHANGED <<steps, turn, outcome, trace, owed, resolved, mem>>

SupervisorOn(arg, o) == UnitOn("supervisor", arg, supervisor(arg, o), LastMessage(arg.messages).content)

\* the supervisor called on a state whose plannerRecommendation names a target
UnitSupervisorPlanned(o, plan) ==
  /\ pc = "unit"
  /\ SupervisorOn([st EXCEPT !.plannerRecommendation = plan], o)

\* answers a user may give to a deal offer: empty, single letters, declines and
\* acceptances
ConfirmationTexts ==
  {"", "a", "y", "k", "no", "nope", "not now", "cancel", "Sure thing", "OKAY", "I will take it"}

\* the supervisor called on a state that awaits a deal confirmation and whose
\* only message is the user's answer
UnitSupervisorConfirming(text, o) ==
  /\ pc = "unit"
  /\ st.workflowContext = "awaiting_deal_confirmation"
  /\ Truthy(st.pendingProduct)
  /\ SupervisorOn([st EXCEPT !.messages = <<User(text)>>], o)

\* the recommendation of the routePlanner test: a delegation object that names
\* a target agent and carries no action
TargetDelegation ==
  Plan(Absent, "catalog", 90, "find apples", "looks like a product search", Absent)

RouteRecommendations ==
  {TargetDelegation,
   Plan("delegate", Absent, 90, "find apples", "classified", "false"),
   Plan("direct_response", Absent, 90, "Hello! How can I help?", "classified", "false"),
   Undef}

RouteDepths == {0, 1, MaxDelegationDepth}

\* the state routePlanner is called with: the planner's message at the tail
RouteInput(recommendation, depth) ==
  [st EXCEPT !.messages = Append(@, Msg("assistant", "planner", "", FALSE, FALSE, recommendation)),
             !.delegationDepth = depth]

RouteCalled(arg) ==
  /\ pc' = "done"
  /\ last' = [node |-> "routePlanner", pre |-> arg,
              frag |-> [EmptyFragment EXCEPT !.next = routePlanner(arg).dest],
              calls |-> {}, threw |-> FALSE, reply |-> ""]
  /\ st' = routePlannerArgument(arg)
  /\ UNCHANGED <<steps, turn, outcome, trace, owed, resolved, mem>>

\* routePlanner alone, called on a state object as its test calls it
UnitRoutePlanner(recommendation, depth) ==
  /\ pc = "unit"
  /\ Len(st.messages) < KeepPermanent
  /\ RouteCalled(RouteInput(recommendation, depth))

NodeNext ==
  \/ \E answer \in PlannerAnswers \cup PlannerOddAnswers : UnitPlanner(answer)
  \/ \E o \in SupervisorOracles : UnitSupervisor(o)
  \/ \E reply \in PlainReplies : UnitCatalog(reply)
  \/ \E reply \in PlainReplies : UnitPayment(reply)
  \/ \E o \in DealsOracles : UnitDeals(o)
  \/ \E reply \in CartReplies : UnitCart(reply)
  \/ \E send \in SendResults : UnitNotification(send)
  \/ \E appended \in AppendedLists : UnitMerge(appended)
  \/ \E ctx \in ContextInputs : UnitContext(ctx)
  \/ \E recommendation \in RouteRecommendations, depth \in RouteDepths :
       UnitRoutePlanner(recommendation, depth)
  \/ \E o \in PlannedOracles, plan \in TargetedPlans : UnitSupervisorPlanned(o, plan)
  \/ \E text \in ConfirmationTexts, o \in PlannedOracles : UnitSupervisorConfirming(text, o)

NodeSpec == NodeInit /\ [][NodeNext]_vars

(***************************************************************************)
(* The Result Cache and the continuation detector behind it                *)
(***************************************************************************)

\* SAFE_SUPERVISOR_LLM_CACHE_TTL_MS, in milliseconds
SUP_CACHE_TTL == 30000
\* the step of the clock, the last instant considered, and the calls recorded
TickMs == 10000
MaxTime == 40000
MaxCalls == 2

NoAnalysis == Analysis(FALSE, "<pending>", 0)

\* JSON.parse(JSON.stringify(analysis)): NaN is written as null
JsonCopy(analysis) ==
  [analysis EXCEPT !.confidence = IF @ = NaN THEN NullConfidence ELSE @]

\* v || {} in the fingerprint: undefined and null are written alike
KeyObject(v) == IF Truthy(v) THEN v ELSE [tag |-> "obj"]

\* the cache key: "continuation:" and the fingerprint of the message, the
\* workflow context, pendingProduct, dealData and the last six contents
ContinuationKey(args) ==
  <<"continuation:", args.message,
    IF Falsy(args.workflowContext) THEN "" ELSE args.workflowContext,
    KeyObject(args.pendingProduct), KeyObject(args.dealData),
    SubSeq(args.messages, IF Len(args.messages) > 6 THEN Len(args.messages) - 5 ELSE 1,
           Len(args.messages))>>

DetectorArgs ==
  {[message |-> "yes", messages |-> <<"Would you like to apply this deal?", "yes">>,
    workflowContext |-> "awaiting_deal_confirmation", dealData |-> Undef,
    pendingProduct |-> Product("apples", 2)],
   [message |-> "checkout", messages |-> <<"checkout">>,
    workflowContext |-> "undefined", dealData |-> Undef, pendingProduct |-> Undef]}

\* answers of the Continuation Oracle: a well-formed one, one with its
\* confidence in words, and a failed call
DetectorAnswers ==
  {ContinuationJson("true", "deal_confirmation", "0.95"),
   ContinuationJson("true", "checkout_flow", Q("high")),
   Throws}

HasKey(cache, key) == \E e \in cache : e.key = key
ValueAt(cache, key) == (CHOOSE e \in cache : e.key = key).value

\* getSupervisorLlmCache finds an entry that has not expired
SupervisorCacheLive(m, key) ==
  \E e \in m.supervisorLlmCache : e.key = key /\ ~(m.now > e.expiresAt)

\* the cache after getSupervisorLlmCache(key): an expired entry is deleted
AfterGet(m, key) ==
  {e \in m.supervisorLlmCache : ~(e.key = key /\ m.now > e.expiresAt)}

setSupervisorLlmCache(cache, key, value, now) ==
  {e \in cache : e.key # key}
    \cup {[key |-> key, value |-> value, expiresAt |-> now + SUP_CACHE_TTL]}

\* continuationCache.set
setContinuationCache(cache, key, value) ==
  {e \in cache : e.key # key} \cup {[key |-> key, value |-> value]}

\* a call of the detector: its arguments, the instants it began and returned,
\* the number of calls begun when it returned (0 while it waits), whether it
\* invoked the oracle, and its result
DetectorCall(args, begun, ended, seen, invoked, state, result) ==
  [args |-> args, begun |-> begun, ended |-> ended, seen |-> seen, invoked |-> invoked,
   state |-> state, result |-> result]

\* detectContinuationIntent up to its first suspension: a live entry of the
\* Result Cache is returned as a copy; else the detector's own cache is asked,
\* and its entry is returned as a copy and stored in the Result Cache; else
\* the Continuation Oracle is invoked and the call waits for the answer
DetectBegun(m, args, key) ==
  IF SupervisorCacheLive(m, key)
  THEN [m EXCEPT !.calls = Append(@, DetectorCall(args, m.now, m.now, Len(m.calls) + 1, FALSE, "returned",
                                     JsonCopy(ValueAt(m.supervisorLlmCache, key))))]
  ELSE IF HasKey(m.continuationCache, key)
  THEN [m EXCEPT !.supervisorLlmCache =
                    setSupervisorLlmCache(AfterGet(m, key), key,
                                          JsonCopy(ValueAt(m.continuationCache, key)), m.now),
                 !.calls = Append(@, DetectorCall(args, m.now, m.now, Len(m.calls) + 1, FALSE, "returned",
                                     JsonCopy(ValueAt(m.continuationCache, key))))]
  ELSE [m EXCEPT !.supervisorLlmCache = AfterGet(m, key),
                 !.calls = Append(@, DetectorCall(args, m.now, m.now, 0, TRUE, "awaiting",
                                     NoAnalysis))]

\* the rest of the call once the oracle has answered: the parsed analysis is
\* stored in the detector's cache, the heuristic analysis of a failed call is
\* not; either is stored in the Result Cache and returned
DetectEnded(m, i, key, failed, res) ==
  [m EXCEPT !.continuationCache = IF failed THEN @ ELSE setContinuationCache(@, key, res),
            !.supervisorLlmCache = setSupervisorLlmCache(@, key, res, m.now),
            !.calls[i] = [@ EXCEPT !.ended = m.now, !.seen = Len(m.calls),
                                    !.state = "returned", !.result = res]]

CacheInit ==
  /\ st = EmptyState
  /\ pc = "cache"
  /\ steps = 0
  /\ turn = 0
  /\ outcome = "none"
  /\ trace = <<>>
  /\ last = NoCall
  /\ owed = NoOrder
  /\ resolved = NotResolved
  /\ mem = NoMem

CacheFrame == UNCHANGED <<st, pc, steps, turn, outcome, trace, last, owed, resolved>>

\* Date.now() advances
Tick ==
  /\ mem.now + TickMs <= MaxTime
  /\ mem' = [mem EXCEPT !.now = @ + TickMs]
  /\ CacheFrame

DetectBegin(args) ==
  /\ Len(mem.calls) < MaxCalls
  /\ mem' = DetectBegun(mem, args, ContinuationKey(args))
  /\ CacheFrame

DetectEnd(i, answer) ==
  /\ i \in 1..Len(mem.calls)
  /\ mem.calls[i].state = "awaiting"
  /\ mem' = DetectEnded(mem, i, ContinuationKey(mem.calls[i].args), answer = Throws,
                        detectContinuationIntent(mem.calls[i].args.message,
                                                 mem.calls[i].args.workflowContext,
                                                 mem.calls[i].args.dealData,
                                                 mem.calls[i].args.pendingProduct, answer))
  /\ CacheFrame

CacheNext ==
  \/ Tick
  \/ \E args \in DetectorArgs : DetectBegin(args)
  \/ \E i \in 1..MaxCalls, answer \in DetectorAnswers : DetectEnd(i, answer)

CacheSpec == CacheInit /\ [][CacheNext]_vars

(***************************************************************************)
(* The planner's cache and its invalidation by the nodes                   *)
(***************************************************************************)

StartsWith(k, prefix) == Len(prefix) <= Len(k) /\ SubSeq(k, 1, Len(prefix)) = prefix

RECURSIVE JoinContents(_)
\* contents.join('|')
JoinContents(messages) ==
  IF messages = <<>> THEN ""
  ELSE IF Len(messages) = 1 THEN messages[1].content
  ELSE messages[1].content \o "|" \o JoinContents(Tail(messages))

\* the planner's cache key: user, conversation, context, pending product, deal
\* status and the last six message contents
PlannerKey(s) ==
  (IF Falsy(s.userId) THEN "anon" ELSE s.userId) \o ":"
  \o (IF Falsy(s.conversationId) THEN "global" ELSE s.conversationId) \o ":"
  \o (IF Falsy(s.workflowContext) THEN "none" ELSE s.workflowContext) \o ":"
  \o (IF Truthy(s.pendingProduct)
      THEN s.pendingProduct.product \o " (qty: "
           \o NumText(IF s.pendingProduct.quantity = 0 THEN 1 ELSE s.pendingProduct.quantity)
           \o ")"
      ELSE "none") \o ":"
  \o (IF Truthy(s.dealData) /\ s.dealData.pending = "true" THEN "pending"
      ELSE IF Truthy(s.dealData) /\ s.dealData.applied = "true" THEN "applied"
      ELSE "none") \o ":"
  \o JoinContents(LastN(s.messages, 6))

\* the prefix the nodes pass to invalidatePlannerCacheByPrefix:
\* `${conversationId || 'global'}:${userId}`
InvalidationPrefix(s) ==
  (IF Falsy(s.conversationId) THEN "global" ELSE s.conversationId) \o ":" \o s.userId

\* the beginning of every planner key of a user's conversation
SessionKeyPrefix(s) ==
  (IF Falsy(s.userId) THEN "anon" ELSE s.userId) \o ":"
  \o (IF Falsy(s.conversationId) THEN "global" ELSE s.conversationId) \o ":"

\* sessions: the second uses the user's id as the conversation id
Sessions ==
  {[userId |-> "u1", conversationId |-> "c1"],
   [userId |-> "u1", conversationId |-> "u1"],
   [userId |-> "u2", conversationId |-> "c1"]}

PlannerTexts == {"hello", "checkout"}

\* the state a turn of the session hands to the planner
PlannerInput(session, text) ==
  [EmptyState EXCEPT !.messages = <<annotateMessage(text, "user", "undefined")>>,
                     !.userId = session.userId,
                     !.conversationId = session.conversationId]

\* getPlannerCache(key) finds an entry that has not expired
PlannerCacheLive(m, key) ==
  \E e \in m.plannerCache : e.key = key /\ ~(m.now > e.expiresAt)

\* setPlannerCache(key, value, 1000 * 30), after getPlannerCache has deleted an
\* expired entry
setPlannerCache(m, key, value) ==
  {e \in m.plannerCache : e.key # key}
    \cup {[key |-> key, value |-> value, expiresAt |-> m.now + SUP_CACHE_TTL]}

\* the payload the planner caches: its final payload; the fallback of a failed
\* oracle call returns before the cache is written, a throw writes nothing
Cacheable(r, answer) == ~r.threw /\ answer # Throws

PlannerCalled(session, text, invoked, wasInvalidated, hadEntry) ==
  [session |-> session, text |-> text, invoked |-> invoked,
   wasInvalidated |-> wasInvalidated, hadEntry |-> hadEntry]

\* one run of the planner: a live cache entry is returned as it is, else the
\* oracle is invoked and the final payload cached
PlannerRun(m, session, text, s, key, r, answer) ==
  [m EXCEPT
     !.plannerCache =
        IF PlannerCacheLive(m, key) THEN @
        ELSE IF Cacheable(r, answer) THEN setPlannerCache(m, key, r.frag)
        ELSE {e \in @ : e.key # key},
     !.plannerCalls =
        Append(@, PlannerCalled(session, text, ~PlannerCacheLive(m, key),
                                m.invalidated = session,
                                \E j \in 1..Len(m.plannerCalls) :
                                   /\ m.plannerCalls[j].session = session
                                   /\ m.plannerCalls[j].text = text)),
     !.invalidated = NoSession]

\* invalidatePlannerCacheByPrefix(prefix)
invalidatePlannerCacheByPrefix(cache, prefix) ==
  {e \in cache : ~StartsWith(e.key, prefix)}

PlannerCacheInit ==
  /\ st = EmptyState
  /\ pc = "plannerCache"
  /\ steps = 0
  /\ turn = 0
  /\ outcome = "none"
  /\ trace = <<>>
  /\ last = NoCall
  /\ owed = NoOrder
  /\ resolved = NotResolved
  /\ mem = NoMem

PlannerCall(session, text, answer) ==
  /\ Len(mem.plannerCalls) < MaxCalls
  /\ mem' = PlannerRun(mem, session, text, PlannerInput(session, text),
                       PlannerKey(PlannerInput(session, text)),
                       planner(PlannerInput(session, text), answer), answer)
  /\ CacheFrame

\* a node of a turn of this session invalidates the planner's cache
Invalidate(session) ==
  /\ mem.invalidated # session
  /\ mem' = [mem EXCEPT
               !.plannerCache =
                  invalidatePlannerCacheByPrefix(@, InvalidationPrefix(PlannerInput(session, "hello"))),
               !.invalidated = session]
  /\ CacheFrame

PlannerCacheNext ==
  \/ Tick
  \/ \E session \in Sessions, text \in PlannerTexts, answer \in PlannerAnswers :
       PlannerCall(session, text, answer)
  \/ \E session \in Sessions : Invalidate(session)

PlannerCacheSpec == PlannerCacheInit /\ [][PlannerCacheNext]_vars

(***************************************************************************)
(* The add_to_cart tool's circuit breaker                                  *)
(***************************************************************************)

MAX_ADD_TO_CART_CALLS == 2
ResetAfterMs == 60000
BreakerTickMs == 20000
BreakerMaxTime == 100000
MaxAttempts == 4

CircuitBreakerError ==
  "CIRCUIT_BREAKER: Too many add-to-cart attempts. This suggests a tool calling issue. Please refresh and try again."

ToolUsers == {"u1", "default-user"}

\* sessionKey = `addToCart-${userId}`
SessionKey(userId) == "addToCart-" \o userId

\* addToCartCallCounter.get(sessionKey) || 0
CurrentCount(m, userId) ==
  IF \E e \in m.addToCartCallCounter : e.key = SessionKey(userId)
  THEN (CHOOSE e \in m.addToCartCallCounter : e.key = SessionKey(userId)).count
  ELSE 0

CounterSet(counter, key, count) ==
  {e \in counter : e.key # key} \cup {[key |-> key, count |-> count]}

Attempt(userId, at, error, reached) ==
  [userId |-> userId, at |-> at, error |-> error, reached |-> reached]

\* one call of the tool: refused by the breaker, or counted with a timer set
\* that deletes the user's counter 60 s later, and sent to the cart backend
\* when it names a product
addToCart(m, userId, hasProduct) ==
  IF CurrentCount(m, userId) >= MAX_ADD_TO_CART_CALLS
  THEN [m EXCEPT !.attempts = Append(@, Attempt(userId, m.now, CircuitBreakerError, FALSE))]
  ELSE [m EXCEPT
          !.addToCartCallCounter =
             CounterSet(@, SessionKey(userId), CurrentCount(m, userId) + 1),
          !.timers = @ \cup {[key |-> SessionKey(userId), due |-> m.now + ResetAfterMs]},
          !.attempts =
             Append(@, Attempt(userId, m.now,
                               IF hasProduct THEN "" ELSE "No product specified to add to cart.",
                               hasProduct))]

\* the timers that are due run: each deletes its user's counter
TimersRun(m, now) ==
  [m EXCEPT
     !.now = now,
     !.addToCartCallCounter =
        {e \in @ : ~\E t \in m.timers : t.key = e.key /\ t.due <= now},
     !.timers = {t \in @ : t.due > now}]

BreakerInit ==
  /\ st = EmptyState
  /\ pc = "breaker"
  /\ steps = 0
  /\ turn = 0
  /\ outcome = "none"
  /\ trace = <<>>
  /\ last = NoCall
  /\ owed = NoOrder
  /\ resolved = NotResolved
  /\ mem = NoMem

AddToCart(userId, hasProduct) ==
  /\ Len(mem.attempts) < MaxAttempts
  /\ mem' = addToCart(mem, userId, hasProduct)
  /\ CacheFrame

Elapse ==
  /\ mem.now + BreakerTickMs <= BreakerMaxTime
  /\ mem' = TimersRun(mem, mem.now + BreakerTickMs)
  /\ CacheFrame

BreakerNext ==
  \/ Elapse
  \/ \E userId \in ToolUsers, hasProduct \in BOOLEAN : AddToCart(userId, hasProduct)

BreakerSpec == BreakerInit /\ [][BreakerNext]_vars

(***************************************************************************)
(* Properties                                                              *)
(***************************************************************************)

SpecialistNodes == {"catalog", "deals", "cart_and_checkout", "payment", "notification_agent"}

\* the text the supervisor of the last call read: the content of the last message
MessageRead == LastMessage(last.pre.messages).content

AwaitingConfirmation ==
  /\ last.node = "supervisor"
  /\ last.pre.workflowContext = "awaiting_deal_confirmation"
  /\ Truthy(last.pre.pendingProduct)

\* C1: every specialist node returns, on every branch, a next hop that is
\* supervisor or the terminal sentinel.  The deals node breaks it.
C1_SpecialistsReturnHubOrEnd ==
  last.node \in SpecialistNodes => last.frag.next \in {"supervisor", END}

\* C2: in awaiting_deal_confirmation with a pending product, a non-affirmative
\* message ends the turn and, after the supervisor's fragment is merged,
\* workflowContext, dealData and pendingProduct are cleared.  The merge keeps them.
C2_DeclineClearsState ==
  (/\ pc = "done"
   /\ AwaitingConfirmation
   /\ ~hasAffirmative(MessageRead))
  => /\ last.frag.next = END
     /\ Nullish(st.workflowContext)
     /\ ~Truthy(st.dealData)
     /\ ~Truthy(st.pendingProduct)

\* the cart reply of the last call parses as JSON with checkoutStatus "success"
StructuredSuccessReply ==
  /\ last.node = "cart_and_checkout"
  /\ safeParseJson(last.reply).ok
  /\ FieldText(safeParseJson(last.reply), "checkoutStatus") = "success"

\* the orderId of the reply, null when the reply carries none
ReplyOrderId ==
  IF FieldTruthy(safeParseJson(last.reply), "orderId")
  THEN ValueText(Field(safeParseJson(last.reply), "orderId")) ELSE "null"

SuccessFragment ==
  /\ last.frag.next = "supervisor"
  /\ last.frag.workflowContext = "send_notification"
  /\ Truthy(last.frag.notificationData)
  /\ last.frag.notificationData.orderId = ReplyOrderId
  /\ last.frag.cartData = NullV

NotRecognizedApplies ==
  /\ ContainsAny(ToLower(last.reply),
                 {"not recognizing the product", "product not found", "item not found"})
  /\ Truthy(last.pre.pendingProduct)

ComplexFlowStart == <<"planner", "supervisor", "deals", "supervisor", "cart_and_checkout">>

AffirmativeTokenIn(text) == \E p \in AffirmativePatterns : Contains(ToLower(text), p)

\* C6: in awaiting_deal_confirmation with a pending product, a message with an
\* affirmative token makes the supervisor return next = cart_and_checkout and
\* workflowContext = add_to_cart_with_deals, keeping pendingProduct and
\* dealData, whatever the planner recommendation is and with no oracle invoked
C6_AffirmativeRoutesToCart ==
  (AwaitingConfirmation /\ AffirmativeTokenIn(MessageRead))
  => /\ last.frag.next = "cart_and_checkout"
     /\ last.frag.workflowContext = "add_to_cart_with_deals"
     /\ last.frag.pendingProduct = last.pre.pendingProduct
     /\ last.frag.dealData = last.pre.dealData
     /\ last.calls = {}
     /\ ~last.threw
     /\ pc = "done" => /\ st.workflowContext = "add_to_cart_with_deals"
                       /\ st.pendingProduct = last.pre.pendingProduct
                       /\ Truthy(st.dealData) = Truthy(last.pre.dealData)

C6_Witness ==
  /\ pc = "done"
  /\ AwaitingConfirmation
  /\ MessageRead = "Yes please"
  /\ Truthy(last.pre.plannerRecommendation)
  /\ Truthy(last.pre.dealData)
  /\ st.next = "cart_and_checkout"

\* the cart call of the last step was a cart-add in a deal flow that includes a
\* checkout: not itself a checkout call, and its reply shows neither
\* product-not-recognized nor a checkout status
CartAddBeforeCheckout ==
  /\ last.node = "cart_and_checkout"
  /\ Truthy(last.pre.dealData)
  /\ last.pre.dealData.includesCheckout = "true"
  /\ last.pre.workflowContext = "add_to_cart_with_deals"
  /\ ~isCheckoutRequest(last.pre)
  /\ ~productNotRecognized(last.reply)
  /\ ~FieldTruthy(safeParseJson(last.reply), "checkoutStatus")
  /\ ~checkoutSuccess(last.reply)

\* C7: such a cart-add returns workflowContext = add_to_cart_with_checkout,
\* dealData.includesCheckout = false and next = supervisor
C7_AutoCheckoutChains ==
  CartAddBeforeCheckout
  => /\ last.frag.workflowContext = "add_to_cart_with_checkout"
     /\ Truthy(last.frag.dealData)
     /\ last.frag.dealData.includesCheckout = "false"
     /\ last.frag.next = "supervisor"

C7_Witness ==
  /\ pc = "done"
  /\ CartAddBeforeCheckout
  /\ last.reply = "Added 2 apples to your cart"
  /\ st.workflowContext = "add_to_cart_with_checkout"
  /\ st.dealData.includesCheckout = "false"

\* C8: every execution of the notification node (no payload, delivery success,
\* delivery reporting failure, delivery throwing) returns notificationData =
\* null and next = terminal with one user-facing message, and does not throw
C8_NotificationClearsAndEnds ==
  last.node = "notification_agent"
  => /\ last.frag.notificationData = NullV
     /\ last.frag.next = END
     /\ Len(last.frag.messages) = 1
     /\ last.frag.messages[1].role = "assistant"
     /\ last.frag.messages[1].content # ""
     /\ ~IsEphemeral(last.frag.messages[1])
     /\ ~last.threw
     /\ pc = "done" => st.notificationData = NullV /\ st.next = END

C8_Witness ==
  /\ pc = "done"
  /\ last.node = "notification_agent"
  /\ Truthy(last.pre.notificationData)
  /\ last.reply = Throws
  /\ st.notificationData = NullV

\* C9: a supervisor run with workflowContext = send_notification returns next =
\* notification_agent, leaves workflowContext as it is and invokes no oracle,
\* whatever the message and the planner recommendation are
C9_SendNotificationRule ==
  (last.node = "supervisor" /\ last.pre.workflowContext = "send_notification")
  => /\ last.frag.next = "notification_agent"
     /\ last.frag.workflowContext = "send_notification"
     /\ last.calls = {}
     /\ ~last.threw
     /\ pc = "done" => st.workflowContext = "send_notification"

C9_Witness ==
  /\ pc = "done"
  /\ last.node = "supervisor"
  /\ last.pre.workflowContext = "send_notification"
  /\ Truthy(last.pre.plannerRecommendation)
  /\ Truthy(last.pre.pendingProduct)
  /\ MessageRead = ComplexRequest
  /\ st.next = "notification_agent"

\* C10: after every merge the message list holds at most 10 permanent and at
\* most 5 ephemeral progress messages
C10_MessageCaps ==
  /\ Len(SelectSeq(st.messages, IsPermanent)) <= 10
  /\ Len(SelectSeq(st.messages, IsEphemeral)) <= 5

\* a merge of more than a cap of each kind into a list already at both caps
C10_Witness ==
  /\ pc = "done"
  /\ last.node = "merge"
  /\ Len(SelectSeq(last.pre.messages, IsPermanent)) = 10
  /\ Len(SelectSeq(last.pre.messages, IsEphemeral)) = 5
  /\ Len(SelectSeq(last.frag.messages, IsPermanent)) > 10
  /\ Len(SelectSeq(last.frag.messages, IsEphemeral)) > 5
  /\ Len(st.messages) = 15

\* how many entries of the list are the message m
Occurrences(m, list) == Cardinality({i \in 1..Len(list) : list[i] = m})

\* the supervisor of the last call handed back, in its fragment, the message it
\* had read from the state
ResubmitsLastMessage ==
  /\ pc = "done"
  /\ last.node = "supervisor"
  /\ ~last.threw
  /\ \E i \in 1..Len(last.frag.messages) :
       last.frag.messages[i] = LastMessage(last.pre.messages)

\* C11: merging a fragment without net-new content leaves the state as it was;
\* a message that is already in the list and is submitted again is not entered a
\* second time.  The reducer concatenates, so the message is entered twice.
C11_ResubmittedMessageNotDuplicated ==
  ResubmitsLastMessage
  => Occurrences(LastMessage(last.pre.messages), st.messages)
       = Occurrences(LastMessage(last.pre.messages), last.pre.messages)

AbsentOrEnumerated == ValidContexts \cup {"undefined", "null"}

\* C12: in every ConversationState workflowContext is absent or one of the seven
\* enumerated values, and a fragment carrying any other string leaves the
\* previous value in place.  The empty string passes the reducer.
C12_ContextValidOrKept ==
  (pc = "done" /\ ~last.threw)
  => /\ st.workflowContext \in AbsentOrEnumerated
     /\ (last.frag.workflowContext \notin AbsentOrEnumerated
         => st.workflowContext = last.pre.workflowContext)

\* the last message of the fragment of the last call
LastReturned == last.frag.messages[Len(last.frag.messages)]

\* C13: when the cart specialist's reply says the product was not recognized and
\* a pending product exists, the turn ends with a catalog-search suggestion and,
\* after the merge, workflowContext, dealData and pendingProduct are cleared.
\* The merge keeps workflowContext.
C13_NotRecognizedClears ==
  (pc = "done" /\ last.node = "cart_and_checkout" /\ NotRecognizedApplies)
  => /\ last.frag.next = END
     /\ Contains(LastReturned.content, "browse our catalog")
     /\ Nullish(st.workflowContext)
     /\ ~Truthy(st.dealData)
     /\ ~Truthy(st.pendingProduct)

\* the cart reply of the last call parses as JSON with checkoutStatus "failure"
StructuredFailureReply ==
  /\ pc = "done"
  /\ last.node = "cart_and_checkout"
  /\ safeParseJson(last.reply).ok
  /\ FieldText(safeParseJson(last.reply), "checkoutStatus") = "failure"

FailureOutcome ==
  /\ last.frag.next = END
  /\ Contains(LastReturned.content, "Checkout failed: ")
  /\ st.cartData = last.pre.cartData
  /\ ~Truthy(last.frag.notificationData)
  /\ st.notificationData = last.pre.notificationData

\* C14 as stated: when the cart specialist reports checkoutStatus = failure the
\* turn ends with a failure message, cartData after the merge is what it was
\* before the call, and no notificationData is created
C14_FailureAlwaysReported == StructuredFailureReply => FailureOutcome

\* C14 amended: the same, for a reply the product-not-recognized rule does not
\* take first
C14_FailureReportedUnlessNotRecognized ==
  (StructuredFailureReply /\ ~NotRecognizedApplies) => FailureOutcome

C14_Witness ==
  /\ StructuredFailureReply
  /\ ~NotRecognizedApplies
  /\ Truthy(last.pre.cartData)
  /\ st.cartData = last.pre.cartData
  /\ LastReturned.content = "Checkout failed: card declined"

\* C15: chat() never surfaces an unhandled failure: a turn that spends the step
\* budget, or in which a node throws or names no destination, resolves to the
\* apology with next = the terminal sentinel, and every finished turn resolves
\* to a value
C15_ChatResolvesToApology ==
  /\ (turn > 0 /\ pc = "idle") => /\ resolved # NotResolved
                                  /\ resolved.message # Throws
  /\ outcome \in {"failed", "cut_off"} => resolved = [message |-> Apology, next |-> END]

\* C15, the failures inside the graph run: a turn in which a node throws, an
\* edge names no destination or the step budget runs out resolves to the apology
C15_GraphFailureResolvesToApology ==
  outcome \in {"failed", "cut_off"} => resolved = [message |-> Apology, next |-> END]

\* a second turn, cut off after five hops, resolved to the apology
C15_Witness ==
  /\ turn = 2
  /\ pc = "idle"
  /\ outcome = "cut_off"
  /\ steps = RecursionLimit
  /\ resolved = [message |-> Apology, next |-> END]

\* C16: a failure of an oracle call made during a supervisor step is absorbed
\* inside the step: the supervisor returns a routing decision and the turn does
\* not end in the apology path.  A failure of the routing LLM is the node's own.
C16_OracleFailureAbsorbed ==
  last.node = "supervisor"
  => /\ ~last.threw
     /\ (pc = "idle" /\ "routing" \in last.calls) => outcome # "failed"

\* the Planner Oracle's answer of the last call is not a plan the planner
\* accepts as it stands: the call failed, the text is no JSON object, or the
\* action is not one of direct_response and delegate
PlannerAnswerRejected ==
  \/ last.reply = Throws
  \/ ~JsonParse(JsonTail(last.reply, IndexOf(last.reply, "{"))).ok
  \/ ToLower(FieldText(JsonParse(JsonTail(last.reply, IndexOf(last.reply, "{"))), "action"))
       \notin {"direct_response", "delegate"}

\* C17: whenever the Planner Oracle fails, answers with text that is no JSON
\* object, or answers with a plan that fails validation, the planner returns
\* without throwing and its recommendation is delegate.
C17_PlannerNeverFailsTurn ==
  (pc = "done" /\ last.node = "planner" /\ PlannerAnswerRejected) =>
    /\ ~last.threw
    /\ Truthy(last.frag.plannerRecommendation)
    /\ last.frag.plannerRecommendation.action = "delegate"

\* C17, the cases that do degrade: a failed call, text that JSON.parse rejects
\* or reads as a falsy value, and an invalid action
C17_DegradesUnlessTruthyPrimitive ==
  (pc = "done" /\ last.node = "planner" /\ PlannerAnswerRejected
     /\ (last.reply = Throws \/ ~TruthyPrimitive(last.reply))) =>
    /\ ~last.threw
    /\ Truthy(last.frag.plannerRecommendation)
    /\ last.frag.plannerRecommendation.action = "delegate"

\* the Planner Oracle's answer of the last call, parsed as the planner parses it
PlannerOracleResult == JsonParse(JsonTail(last.reply, IndexOf(last.reply, "{")))

\* the last call is a planner call whose oracle result is a direct_response
\* with a numeric confidence below 0.7
LowConfidenceDirectResponse ==
  /\ pc = "done"
  /\ last.node = "planner"
  /\ last.reply # Throws
  /\ PlannerOracleResult.ok
  /\ ToLower(FieldText(PlannerOracleResult, "action")) = "direct_response"
  /\ HasField(PlannerOracleResult, "confidence")
  /\ Field(PlannerOracleResult, "confidence").kind = "num"
  /\ Field(PlannerOracleResult, "confidence").num < 70

\* no recommendation the planner emits is a direct_response below 0.7
NoLowConfidenceDirectResponseEmitted ==
  (pc = "done" /\ last.node = "planner" /\ ~last.threw) =>
    ~(/\ last.frag.plannerRecommendation.action = "direct_response"
      /\ last.frag.plannerRecommendation.confidence < 70)

\* C18 as stated: a direct_response with confidence below 0.7 is normalized to
\* delegate with confidence at most 0.6, and no emitted recommendation is a
\* direct_response with confidence below 0.7.
C18_DemotedWithConfidenceAtMostSixty ==
  /\ LowConfidenceDirectResponse =>
       /\ last.frag.plannerRecommendation.action = "delegate"
       /\ last.frag.plannerRecommendation.confidence <= 60
  /\ NoLowConfidenceDirectResponseEmitted

\* C18 amended: a direct_response with confidence below 0.7 is normalized to
\* delegate; its confidence is the oracle's, still below 0.7, and is capped at
\* 0.6 only when the result carries neither task nor reasoning; no emitted
\* recommendation is a direct_response with confidence below 0.7.
C18_DemotedKeepingConfidence ==
  /\ LowConfidenceDirectResponse =>
       /\ last.frag.plannerRecommendation.action = "delegate"
       /\ last.frag.plannerRecommendation.confidence < 70
       /\ last.frag.plannerRecommendation.confidence
            = (IF ~FieldTruthy(PlannerOracleResult, "task")
                  /\ ~FieldTruthy(PlannerOracleResult, "reasoning")
                  /\ Field(PlannerOracleResult, "confidence").num > 60
               THEN 60 ELSE Field(PlannerOracleResult, "confidence").num)
  /\ NoLowConfidenceDirectResponseEmitted

\* C18 witness: the oracle's direct_response at 0.65 came out as delegate at 0.65
C18_Witness ==
  /\ LowConfidenceDirectResponse
  /\ Field(PlannerOracleResult, "confidence").num = 65
  /\ last.frag.plannerRecommendation.action = "delegate"
  /\ last.frag.plannerRecommendation.confidence = 65

\* the targetAgent the oracle's answer names, Absent when it names none
OracleTargetAgent ==
  IF last.reply # Throws /\ PlannerOracleResult.ok
     /\ FieldText(PlannerOracleResult, "targetAgent") # ""
  THEN FieldText(PlannerOracleResult, "targetAgent") ELSE Absent

\* C19: the recommendation attached to the planner's message carries a
\* targetAgent: the oracle's when the oracle returns well-formed JSON naming a
\* valid agent, and supervisor when the output is malformed or names an unknown
\* agent.
C19_RecommendationCarriesTargetAgent ==
  (pc = "done" /\ last.node = "planner" /\ ~last.threw) =>
    LastMessage(last.frag.messages).rec.targetAgent
      = (IF OracleTargetAgent \in SpecialistNodes \cup {"supervisor"}
         THEN OracleTargetAgent ELSE "supervisor")

\* C19, what the code does: no recommendation of the planner has a targetAgent
C19_RecommendationHasNoTargetAgent ==
  (pc = "done" /\ last.node = "planner" /\ ~last.threw) =>
    /\ LastMessage(last.frag.messages).rec = last.frag.plannerRecommendation
    /\ LastMessage(last.frag.messages).rec.targetAgent = Absent

\* calls i and j of the detector, j the later one, have identical arguments,
\* call i invoked the Continuation Oracle, and call j starts within the TTL
\* window that opens when call i starts
RepeatedWithinTtl(i, j) ==
  /\ i < j
  /\ mem.calls[i].args = mem.calls[j].args
  /\ mem.calls[i].invoked
  /\ mem.calls[j].begun <= mem.calls[i].begun + SUP_CACHE_TTL

\* C20: two calls of the continuation detector with identical arguments within
\* the TTL window cause exactly one Continuation Oracle invocation, and the
\* second call returns a result equal to the first.
C20_SecondCallServedFromCache ==
  \A i, j \in 1..Len(mem.calls) :
    RepeatedWithinTtl(i, j) =>
      /\ ~mem.calls[j].invoked
      /\ (mem.calls[i].state = "returned" /\ mem.calls[j].state = "returned")
           => mem.calls[j].result = mem.calls[i].result

\* no call with the cache key of call i begins while an earlier one still waits
NeverOverlapping(i) ==
  \A k, l \in 1..Len(mem.calls) :
    (/\ k < l
     /\ ContinuationKey(mem.calls[k].args) = ContinuationKey(mem.calls[i].args)
     /\ ContinuationKey(mem.calls[l].args) = ContinuationKey(mem.calls[i].args))
      => (mem.calls[k].state = "returned" /\ mem.calls[k].seen < l)

\* C20, the sequential case: when the calls with these arguments never overlap
\* and the second starts within the TTL of the first one's return, the second
\* invokes no oracle, and returns an equal result unless the confidence of the
\* first is NaN
C20_SequentialCallServedFromCache ==
  \A i, j \in 1..Len(mem.calls) :
    (/\ i < j
     /\ mem.calls[i].args = mem.calls[j].args
     /\ mem.calls[i].invoked
     /\ NeverOverlapping(i)
     /\ mem.calls[j].begun <= mem.calls[i].ended + SUP_CACHE_TTL) =>
      /\ ~mem.calls[j].invoked
      /\ mem.calls[j].state = "returned"
      /\ mem.calls[j].result = JsonCopy(mem.calls[i].result)
      /\ mem.calls[i].result.confidence # NaN => mem.calls[j].result = mem.calls[i].result

\* call j of the detector begins more than the TTL after every earlier call
\* with its cache key has returned and stored its result, and there is one
StoredLongAgo(j) ==
  /\ \E k \in 1..Len(mem.calls) :
       /\ k < j
       /\ ContinuationKey(mem.calls[k].args) = ContinuationKey(mem.calls[j].args)
  /\ \A k \in 1..Len(mem.calls) :
       (k < j /\ ContinuationKey(mem.calls[k].args) = ContinuationKey(mem.calls[j].args))
         => /\ mem.calls[k].state = "returned"
            /\ mem.calls[k].seen < j
            /\ mem.calls[j].begun > mem.calls[k].ended + SUP_CACHE_TTL

\* C21: every entry of the result caches self-expires: a lookup made more than
\* the TTL (30 s) after the entry was stored is a miss and leads to a fresh
\* oracle invocation.
C21_LookupAfterTtlInvokesOracle ==
  \A j \in 1..Len(mem.calls) : StoredLongAgo(j) => mem.calls[j].invoked

\* C21 for the Result Cache alone: more than the TTL after it was stored, the
\* entry of the supervisor-level cache is no longer served
C21_ResultCacheEntryExpires ==
  \A j \in 1..Len(mem.calls) :
    (StoredLongAgo(j) /\ ~mem.calls[j].invoked) =>
      HasKey(mem.continuationCache, ContinuationKey(mem.calls[j].args))

\* C23: after clearSession has completed, the checkpointed ConversationState of
\* the thread is discarded: the next chat starts from an empty state.
C23_ClearSessionDiscardsState ==
  outcome = "cleared" => st = EmptyState

\* C23, what the code does: clearSession leaves the checkpointed state as the
\* last turn left it, with all its messages
C23_ClearSessionKeepsState ==
  outcome = "cleared" =>
    /\ Len(st.messages) >= turn
    /\ st.userId = "u1"

\* the planner's cache holds an entry written for this session
HasEntryOf(session) ==
  \E e \in mem.plannerCache : StartsWith(e.key, SessionKeyPrefix(session))

\* C22: after a node has invalidated the cache for a conversation, no planner
\* cache entry of that user and conversation remains, and the next planner run
\* with the same input invokes the Planner Oracle again.
C22_InvalidationRemovesEntries ==
  /\ mem.invalidated # NoSession => ~HasEntryOf(mem.invalidated)
  /\ \A j \in 1..Len(mem.plannerCalls) :
       mem.plannerCalls[j].wasInvalidated => mem.plannerCalls[j].invoked

\* C22, the one case in which the prefix matches: the conversation id and the
\* user id are the same text
C22_InvalidationRemovesOnlyWhenIdsCoincide ==
  (mem.invalidated # NoSession /\ mem.invalidated.userId = mem.invalidated.conversationId)
    => ~HasEntryOf(mem.invalidated)

\* the calls of one user that reached the cart backend within 60 s of call i
ReachedWithinWindow(i) ==
  {j \in i..Len(mem.attempts) :
     /\ mem.attempts[j].userId = mem.attempts[i].userId
     /\ mem.attempts[j].reached
     /\ mem.attempts[j].at - mem.attempts[i].at < ResetAfterMs}

\* C24: for each user at most 2 add_to_cart calls reach the cart backend within
\* any 60-second window; further calls in that window are answered with the
\* CIRCUIT_BREAKER error.
C24_AtMostTwoCallsPerWindow ==
  \A i \in 1..Len(mem.attempts) :
    Cardinality(ReachedWithinWindow(i)) <= MAX_ADD_TO_CART_CALLS

\* C24, the counter never exceeds the maximum
C24_CounterAtMostTwo ==
  \A e \in mem.addToCartCallCounter : e.count <= MAX_ADD_TO_CART_CALLS

\* the supervisor's result on the state it was called with, for a routing answer
RoutedByOracle(o) == supervisor(last.pre, o)

\* C25: in general LLM fallback routing an oracle answer that is not one of
\* catalog, cart_and_checkout, payment, deals resolves to catalog, so the next
\* hop chosen by this rule is always one of those four specialists.
C25_FallbackRoutesToSpecialist ==
  /\ (last.node = "supervisor" /\ "routing" \in last.calls /\ ~last.threw)
       => last.frag.next \in RoutableByLlm
  /\ last.node = "supervisor" =>
       \A o \in {x \in SupervisorOracles : Trim(ToLower(x.route)) \notin RoutableByLlm} :
         ("routing" \in RoutedByOracle(o).calls /\ ~RoutedByOracle(o).threw)
           => RoutedByOracle(o).frag.next = "catalog"

\* C25 happens: the routing oracle answered "shipping" and the supervisor
\* returned catalog
C25_Witness ==
  /\ last.node = "supervisor"
  /\ "routing" \in last.calls
  /\ ~last.threw
  /\ last.frag.next = "catalog"
  /\ \E o \in SupervisorOracles :
       /\ o.route = "shipping"
       /\ RoutedByOracle(o).frag = last.frag
       /\ \E p \in SupervisorOracles :
            /\ p.cont = o.cont /\ p.extract = o.extract /\ p.route = "deals"
            /\ RoutedByOracle(p).frag.next = "deals"

\* the recommendation on the planner's message routePlanner was called with
RoutedRecommendation == LastMessage(last.pre.messages).rec

\* a recommendation that delegates: by its action, or by naming a target agent
IsDelegation(recommendation) ==
  /\ Truthy(recommendation)
  /\ \/ recommendation.action = "delegate"
     \/ recommendation.action = Absent /\ recommendation.targetAgent # Absent

\* C26: for a planner message carrying a delegation recommendation, routePlanner
\* returns 'supervisor' at any delegation depth, stores that recommendation as
\* state.plannerRecommendation and increases delegationDepth by exactly 1.
C26_DelegationStoredAndCounted ==
  (last.node = "routePlanner" /\ IsDelegation(RoutedRecommendation)) =>
     /\ last.frag.next = "supervisor"
     /\ st.plannerRecommendation = RoutedRecommendation
     /\ st.delegationDepth = last.pre.delegationDepth + 1

\* C26, for a recommendation whose action is delegate
C26_DelegateActionStoredAndCounted ==
  (last.node = "routePlanner" /\ Truthy(RoutedRecommendation)
   /\ RoutedRecommendation.action = "delegate") =>
     /\ last.frag.next = "supervisor"
     /\ st.plannerRecommendation = RoutedRecommendation
     /\ st.delegationDepth = last.pre.delegationDepth + 1

\* C26, every delegation goes to the supervisor, at any depth
C26_DelegationRoutedToSupervisor ==
  (last.node = "routePlanner" /\ IsDelegation(RoutedRecommendation)) =>
     last.frag.next = "supervisor"

\* the message whose content the supervisor classified: the last of the
\* messages it was called with
ClassifiedMessage == LastMessage(last.pre.messages)

\* C27: the message text the supervisor classifies in a turn is the user's
\* message of that turn, not the planner's serialized recommendation and not a
\* progress message left at the tail of the message list.
C27_SupervisorClassifiesUserMessage ==
  last.node = "supervisor" =>
    /\ ClassifiedMessage.role = "user"
    /\ ~ClassifiedMessage.prog
    /\ ~Truthy(ClassifiedMessage.rec)
    /\ ClassifiedMessage.content = LastUserContent(last.pre.messages, "")

\* C27, what the supervisor reads on the hop that follows the planner: the
\* planner's message, whose content is the serialized recommendation
C27_SupervisorClassifiesPlannerMessage ==
  (last.node = "supervisor" /\ Len(trace) = 2) =>
    /\ ClassifiedMessage.agent = "planner"
    /\ Truthy(ClassifiedMessage.rec)
    /\ ClassifiedMessage.content = StringifyPlan(ClassifiedMessage.rec)

\* the planner has just run in this turn and returned a recommendation
PlannerJustRan == last.node = "planner" /\ ~last.threw /\ trace = <<"planner">>

\* C28: routePlanner decides from the recommendation the planner produced in
\* the current turn: direct_response ends the turn without running the
\* supervisor or any specialist, and delegate hands the turn to the supervisor,
\* also in later turns whose state holds progress messages of earlier turns.
C28_RoutedByCurrentRecommendation ==
  PlannerJustRan =>
    /\ last.frag.plannerRecommendation.action = "direct_response" => pc = "idle"
    /\ last.frag.plannerRecommendation.action = "delegate" => pc = "supervisor"

\* C28, where the state held no ephemeral progress message when the planner
\* ran: the turn is routed by the planner's recommendation
C28_RoutedWhenNoProgressLeft ==
  (PlannerJustRan /\ \A i \in 1..Len(last.pre.messages) : ~IsEphemeral(last.pre.messages[i])) =>
    /\ last.frag.plannerRecommendation.action = "direct_response" => pc = "idle"
    /\ last.frag.plannerRecommendation.action = "delegate" => pc = "supervisor"

\* C28, where it did: the turn ends at the planner whatever it recommended
C28_EndsWhenProgressLeft ==
  (PlannerJustRan /\ \E i \in 1..Len(last.pre.messages) : IsEphemeral(last.pre.messages[i])) =>
    pc = "idle"

\* the notification node has run in this conversation: its message is kept
NotificationRanBefore(messages) ==
  \E i \in 1..Len(messages) : messages[i].agent = "notification_agent"

\* the supervisor has just sent the turn to notification_agent
SentToNotification == pc = "notification_agent"

\* C29, first part: the supervisor routes a turn to notification_agent only
\* when a checkout has just succeeded and notificationData is present
C29_NotificationOnlyAfterCheckout ==
  SentToNotification =>
    /\ Len(trace) >= 2
    /\ trace[Len(trace)] = "supervisor"
    /\ trace[Len(trace) - 1] = "cart_and_checkout"
    /\ Truthy(st.notificationData)

\* C29, second part: once the notification node has run, a later turn is not
\* sent to notification_agent again
C29_NotSentAgain ==
  SentToNotification => ~NotificationRanBefore(st.messages)

\* C29, second part: once the notification node has run, a later turn for
\* which the planner delegates is routed by the supervisor
C29_LaterTurnRoutedBySupervisor ==
  (PlannerJustRan /\ NotificationRanBefore(last.pre.messages)
   /\ last.frag.plannerRecommendation.action = "delegate")
    => pc = "supervisor"

\* C29: the supervisor routes a turn to notification_agent only when a checkout
\* has just succeeded and notificationData is present; once the notification
\* node has run, later turns of the same conversation are routed by their own
\* message and are not sent to notification_agent again.
C29_NotificationOnlyOnce ==
  /\ C29_NotificationOnlyAfterCheckout
  /\ C29_NotSentAgain
  /\ C29_LaterTurnRoutedBySupervisor

\* C29, the state the notification node leaves behind: the payload is cleared
\* and the workflow context is still send_notification
C29_ContextLeftBehind ==
  (last.node = "notification_agent" /\ pc = "idle" /\ outcome = "ok"
   /\ trace[Len(trace)] = "notification_agent")
    => /\ st.workflowContext = "send_notification"
       /\ ~Truthy(st.notificationData)

\* the destinations declared in the conditional-edge map of a node
EdgesOf(node) == IF node = "supervisor" THEN SupervisorEdges ELSE SpecialistEdges

ConditionalNodes == {"supervisor", "catalog", "cart_and_checkout", "deals", "notification_agent"}

\* the next value the edge of the last node read: the node's fragment merged
\* into the state it ran on
NextRead == MergeFragment(last.pre, last.frag).next

\* C30: every next value returned by the supervisor node and by each
\* specialist node is a destination declared in that node's conditional-edge
\* map, so no turn fails on an unroutable hop.
C30_EveryNextIsDeclared ==
  (last.node \in ConditionalNodes /\ ~last.threw) => NextRead \in EdgesOf(last.node)

\* C30 for the supervisor alone
C30_SupervisorNextIsDeclared ==
  (last.node = "supervisor" /\ ~last.threw) => NextRead \in SupervisorEdges

\* C30 for the specialists whose every branch returns supervisor or the
\* terminal sentinel
C30_CatalogAndNotificationNextIsDeclared ==
  (last.node \in {"catalog", "notification_agent"} /\ ~last.threw)
    => NextRead \in SpecialistEdges

\* the longest chain of a turn: deals, add to cart, deals and add to cart once
\* more, checkout, notification, each reached from the supervisor
MaxSupervisorRuns == 5

\* the times a node ran in this turn
RECURSIVE CountOf(_, _)
CountOf(seq, node) ==
  IF seq = <<>> THEN 0
  ELSE (IF Head(seq) = node THEN 1 ELSE 0) + CountOf(Tail(seq), node)

\* C31: independently of the step budget every turn terminates: the
\* supervisor -> specialist -> supervisor cycle is taken only a bounded number
\* of times, so with the graph runner's default limit no turn is still running
\* when the limit is reached.
C31_TurnTerminatesByItself ==
  /\ pc # "idle" => steps < DefaultRecursionLimit
  /\ CountOf(trace, "supervisor") <= MaxSupervisorRuns

\* C31 happens: a turn went through the supervisor four times, by way of
\* deals and cart_and_checkout, and ended
C31_Witness ==
  /\ pc = "idle"
  /\ outcome = "ok"
  /\ CountOf(trace, "supervisor") = MaxSupervisorRuns
  /\ CountOf(trace, "deals") >= 1
  /\ CountOf(trace, "cart_and_checkout") >= 1

\* the supervisor ran on a state in add_to_cart_with_deals with a pending
\* product and a delegate recommendation of the planner
SupervisedWithDealsPending ==
  /\ last.node = "supervisor"
  /\ ~last.threw
  /\ last.pre.workflowContext = "add_to_cart_with_deals"
  /\ Truthy(last.pre.pendingProduct)
  /\ Truthy(last.pre.plannerRecommendation)
  /\ last.pre.plannerRecommendation.action = "delegate"

\* C32: with workflowContext = add_to_cart_with_deals and a pending product a
\* delegate recommendation never diverts the turn: the supervisor routes to
\* cart_and_checkout whatever the planner's target, keeping the workflow
\* context add_to_cart_with_deals and the pending product.
C32_DealsContextForcesCart ==
  SupervisedWithDealsPending =>
    /\ last.frag.next = "cart_and_checkout"
    /\ st.workflowContext = "add_to_cart_with_deals"
    /\ st.pendingProduct = last.pre.pendingProduct

\* C32, the hop alone: the turn goes to cart_and_checkout and the pending
\* product is kept
C32_DealsContextRoutesToCart ==
  SupervisedWithDealsPending =>
    /\ last.frag.next = "cart_and_checkout"
    /\ st.pendingProduct = last.pre.pendingProduct

\* C32, for a recommendation that names another target agent: the override of
\* the planner block applies and the context is kept
C32_OverriddenRecommendationKeepsContext ==
  (SupervisedWithDealsPending
   /\ last.pre.plannerRecommendation.targetAgent \notin {Absent, "cart_and_checkout"}) =>
    /\ last.frag.next = "cart_and_checkout"
    /\ st.workflowContext = "add_to_cart_with_deals"
    /\ st.pendingProduct = last.pre.pendingProduct

\* the supervisor ran on a state whose context is add_to_cart_with_checkout
SupervisedAfterAutoCheckout ==
  /\ last.node = "supervisor"
  /\ ~last.threw
  /\ last.pre.workflowContext = "add_to_cart_with_checkout"

\* the state the supervisor's fragment makes of the state it ran on
Supervised == MergeFragment(last.pre, last.frag)

ContinuationProbes ==
  {ContinuationJson("true", type, confidence) :
     type \in {"deal_confirmation", "checkout_flow", "add_to_cart", "new_request"},
     confidence \in {"0.9", "0.7", "0.5"}}
  \cup {ContinuationJson("false", "checkout_flow", "0.9"), Throws}

ProbeOracles == [cont : ContinuationProbes, route : {"deals"}, extract : {"null"}]

\* the continuation analysis the supervisor obtains on the state it ran on
AnalysisOn(s, o) ==
  detectContinuationIntent(LastMessage(s.messages).content, s.workflowContext, s.dealData,
                           s.pendingProduct, o.cont)

\* the analysis causes a transition
Dispatches(analysis) ==
  /\ analysis.isContinuation
  /\ analysis.confidence > MIN_CONTINUATION_CONFIDENCE
  /\ analysis.continuationType \in {"deal_confirmation", "checkout_flow", "add_to_cart"}

\* the planner block of the supervisor returns on this state
PlanRoutes(s) ==
  /\ Truthy(s.plannerRecommendation)
  /\ \/ s.plannerRecommendation.action = "direct_response"
     \/ /\ s.plannerRecommendation.action = "delegate"
        /\ s.plannerRecommendation.targetAgent \notin {Absent, "undefined", "null", ""}
        /\ \/ s.plannerRecommendation.confidence > 70
           \/ FinalTargetAgent(s, s.plannerRecommendation,
                               detectComplexWorkflow(LastMessage(s.messages).content))
                # s.plannerRecommendation.targetAgent

C32_CartHopAndOverrideKeepContext ==
  SupervisedWithDealsPending =>
    /\ last.frag.next = "cart_and_checkout"
    /\ st.pendingProduct = last.pre.pendingProduct
    /\ last.pre.plannerRecommendation.targetAgent \notin {Absent, "cart_and_checkout"}
         => st.workflowContext = "add_to_cart_with_deals"

\* C32 happens: the planner named catalog and the supervisor sent the turn to
\* cart_and_checkout all the same
C32_Witness ==
  /\ SupervisedWithDealsPending
  /\ last.pre.plannerRecommendation.targetAgent = "catalog"
  /\ last.pre.plannerRecommendation.confidence > 70
  /\ last.frag.next = "cart_and_checkout"
  /\ st.workflowContext = "add_to_cart_with_deals"
  /\ Truthy(st.pendingProduct)

\* const validAgents of the planner block
validAgents == {"catalog", "cart_and_checkout", "deals", "payment", "notification_agent"}

\* no rule placed before the planner block returns on this state
PlanBlockReached(s) ==
  /\ s.workflowContext # "send_notification"
  /\ ~(s.workflowContext = "awaiting_deal_confirmation" /\ Truthy(s.pendingProduct))

\* the supervisor ran on a delegate recommendation that names a target
SupervisedTargetedPlan ==
  /\ last.node = "supervisor"
  /\ ~last.threw
  /\ PlanBlockReached(last.pre)
  /\ Truthy(last.pre.plannerRecommendation)
  /\ last.pre.plannerRecommendation.action = "delegate"
  /\ last.pre.plannerRecommendation.targetAgent \notin {Absent, "undefined", "null", ""}

\* the planner block returned the planner's own target
AcceptedAsIs ==
  /\ last.frag.next = last.pre.plannerRecommendation.targetAgent
  /\ "continuation" \notin last.calls

\* C34: a delegate recommendation's targetAgent becomes the next hop as-is only
\* if confidence > 0.7 and the target is a valid specialist name; a target that
\* is not a valid specialist falls through to the continuation rule.
C34_OnlyValidSpecialistsAccepted ==
  SupervisedTargetedPlan =>
    /\ AcceptedAsIs =>
         /\ last.pre.plannerRecommendation.confidence > 70
         /\ last.pre.plannerRecommendation.targetAgent \in validAgents
    /\ last.pre.plannerRecommendation.targetAgent \notin validAgents =>
         "continuation" \in last.calls

\* C34, the confidence half: a target is accepted as-is only above 0.7, and a
\* recommendation at or below 0.7 that no override changes reaches the
\* continuation rule
C34_OnlyConfidentTargetsAccepted ==
  SupervisedTargetedPlan =>
    /\ AcceptedAsIs => last.pre.plannerRecommendation.confidence > 70
    /\ (last.pre.plannerRecommendation.confidence <= 70
        /\ last.frag.next = last.pre.plannerRecommendation.targetAgent)
         => "continuation" \in last.calls

\* C34, what the code does with a name outside validAgents: above 0.7 it is
\* returned as the next hop unless an override replaces it
C34_UnknownTargetIsRoutedTo ==
  (SupervisedTargetedPlan
   /\ last.pre.plannerRecommendation.targetAgent \notin validAgents
   /\ last.pre.plannerRecommendation.confidence > 70) =>
    /\ "continuation" \notin last.calls
    /\ last.frag.next \in {last.pre.plannerRecommendation.targetAgent,
                           "cart_and_checkout", "deals"}

\* the supervisor ran and reached its continuation rule
SupervisedByContinuationRule ==
  /\ last.node = "supervisor"
  /\ ~last.threw
  /\ PlanBlockReached(last.pre)
  /\ ~PlanRoutes(last.pre)

\* an oracle whose analysis is no continuation at all
NoContinuationOracle ==
  [cont |-> ContinuationJson("false", "new_request", "0.9"), route |-> "deals",
   extract |-> "null"]

\* C35: the continuation analysis causes a transition only if isContinuation is
\* true and confidence is strictly above 0.7; then deal_confirmation routes to
\* cart_and_checkout with add_to_cart_with_deals, checkout_flow to
\* cart_and_checkout with process_checkout if cartData exists else
\* prepare_checkout, add_to_cart to cart_and_checkout (add_to_cart_with_deals)
\* if a pending product exists, else to deals (check_deals).
C35_ContinuationDispatch ==
  SupervisedByContinuationRule =>
    \A o \in ProbeOracles :
      LET analysis == AnalysisOn(last.pre, o)
          r == supervisor(last.pre, o)
          after == MergeFragment(last.pre, r.frag)
          above == analysis.isContinuation
                   /\ analysis.confidence > MIN_CONTINUATION_CONFIDENCE
      IN
      /\ ~r.threw
      /\ ~above => r.frag = supervisor(last.pre, NoContinuationOracle).frag
      /\ (above /\ analysis.continuationType = "deal_confirmation") =>
           /\ r.frag.next = "cart_and_checkout"
           /\ after.workflowContext = "add_to_cart_with_deals"
      /\ (above /\ analysis.continuationType = "checkout_flow") =>
           /\ r.frag.next = "cart_and_checkout"
           /\ after.workflowContext = IF Truthy(last.pre.cartData) THEN "process_checkout"
                                      ELSE "prepare_checkout"
      /\ (above /\ analysis.continuationType = "add_to_cart") =>
           IF Truthy(last.pre.pendingProduct)
           THEN /\ r.frag.next = "cart_and_checkout"
                /\ after.workflowContext = "add_to_cart_with_deals"
           ELSE /\ r.frag.next = "deals"
                /\ after.workflowContext = "check_deals"

\* C35 happens: a checkout_flow analysis above the threshold sent a turn without
\* cart data to cart_and_checkout with prepare_checkout
C35_Witness ==
  /\ SupervisedByContinuationRule
  /\ "continuation" \in last.calls
  /\ last.pre.workflowContext = "undefined"
  /\ ~Truthy(last.pre.cartData)
  /\ last.frag.next = "cart_and_checkout"
  /\ st.workflowContext = "prepare_checkout"

\* the deals node ran to its end
DealsRan == last.node = "deals" /\ ~last.threw

\* C36: every execution of the deals node returns a fragment with a defined
\* next hop, in exactly one of the outcomes: clarification and terminate,
\* auto-apply and back to the supervisor, await confirmation and terminate, no
\* deals and terminate, or proceed to the cart step.
C36_DealsAlwaysNamesNextHop ==
  DealsRan =>
    \/ /\ last.frag.next = END
       /\ last.frag.workflowContext \in {"null", "awaiting_deal_confirmation"}
    \/ /\ last.frag.next = "supervisor"
       /\ last.frag.workflowContext = "add_to_cart_with_deals"
       /\ last.frag.dealData.applied = "true"
    \/ /\ last.frag.next = "cart_and_checkout"
       /\ last.frag.workflowContext = "add_to_cart_with_deals"

\* C36, what the code does instead: besides the five outcomes the node can end
\* without a return statement, handing the graph no fragment at all
C36_DealsOutcomesOrNothing ==
  DealsRan =>
    \/ last.frag = EmptyFragment
    \/ /\ last.frag.next = END
       /\ last.frag.workflowContext \in {"null", "awaiting_deal_confirmation"}
    \/ /\ last.frag.next = "supervisor"
       /\ last.frag.workflowContext = "add_to_cart_with_deals"
       /\ last.frag.dealData.applied = "true"
    \/ /\ last.frag.next = "cart_and_checkout"
       /\ last.frag.workflowContext = "add_to_cart_with_deals"

\* plannerRecommendation?.autoApplyIntent === true on the state the node ran on
AutoApplyIntentGiven ==
  /\ Truthy(last.pre.plannerRecommendation)
  /\ last.pre.plannerRecommendation.autoApplyIntent = "true"

\* the deals node marked the deal applied and sent the turn onward
AppliedAndRoutedOnward ==
  /\ DealsRan
  /\ last.frag.next \in {"supervisor", "cart_and_checkout"}
  /\ last.frag.dealData.applied = "true"

\* C37: the deals node marks a deal as applied and routes onward without asking
\* only when the planner's recommendation has autoApplyIntent = true; a
\* complex-workflow request without auto-apply intent ends the turn.
C37_AppliedOnlyOnAutoApplyIntent ==
  /\ AppliedAndRoutedOnward => AutoApplyIntentGiven
  /\ (DealsRan /\ "deals_agent" \in last.calls /\ ~AutoApplyIntentGiven
      /\ dealsIsComplexWorkflow(ToLower(LastMessage(last.pre.messages).content)))
       => last.frag.next = END

\* C37, the part the code keeps: the hop back to the supervisor is taken only
\* with autoApplyIntent, and without it a reply that asks for confirmation ends
\* the turn in awaiting_deal_confirmation
C37_SupervisorHopOnlyOnAutoApplyIntent ==
  /\ (DealsRan /\ last.frag.next = "supervisor") => AutoApplyIntentGiven
  /\ (DealsRan /\ "deals_agent" \in last.calls /\ ~AutoApplyIntentGiven
      /\ ConfirmationIn(ToLower(last.reply)))
       => /\ last.frag.next = END
          /\ last.frag.workflowContext = "awaiting_deal_confirmation"

\* C37, what the code does without autoApplyIntent when the reply has no
\* confirmation wording: the deal is marked applied and the turn goes to the
\* cart node
C37_AppliedWithoutIntentGoesToCart ==
  (AppliedAndRoutedOnward /\ ~AutoApplyIntentGiven) =>
    /\ last.frag.next = "cart_and_checkout"
    /\ last.frag.workflowContext = "add_to_cart_with_deals"
    /\ ~ConfirmationIn(ToLower(last.frag.dealData.response))

\* some whitespace-separated token of the message contains a listed token
SomeTokenHasPattern(message) ==
  \E word \in Words(ToLower(message)) : \E pattern \in AffirmativePatterns :
    Contains(word, pattern)

\* the answer the confirmation check looked at
ConfirmationAnswer == LastMessage(last.pre.messages).content

\* the confirmation check took the answer for a yes / for a no
TakenAsAffirmative ==
  last.frag.next = "cart_and_checkout" /\ last.frag.workflowContext = "add_to_cart_with_deals"

TakenAsDecline == last.frag.next = END

\* C38: the deal-confirmation check treats a message as affirmative only if
\* some whitespace-separated token contains (or starts with) a listed
\* affirmative token; a message with no such token, an empty message or a
\* one-letter word included, is handled as a decline.
C38_AffirmativeOnlyOnListedToken ==
  (AwaitingConfirmation /\ ~last.threw) =>
    /\ TakenAsAffirmative => SomeTokenHasPattern(ConfirmationAnswer)
    /\ ~SomeTokenHasPattern(ConfirmationAnswer) => TakenAsDecline

\* C38, what the code tests: a token that contains a listed token, or a token
\* that is itself part of a listed token, makes the message affirmative;
\* anything else is a decline
C38_AffirmativeOnEitherContainment ==
  (AwaitingConfirmation /\ ~last.threw) =>
    IF \E word \in Words(ToLower(ConfirmationAnswer)) : \E pattern \in AffirmativePatterns :
         Contains(word, pattern) \/ Contains(pattern, word)
    THEN TakenAsAffirmative
    ELSE TakenAsDecline

\* C38, for messages every token of which has at least two letters and is not
\* part of a listed token: the claim's rule decides
C38_LongTokensDecidedByListedToken ==
  (AwaitingConfirmation /\ ~last.threw
   /\ \A word \in Words(ToLower(ConfirmationAnswer)) : \A pattern \in AffirmativePatterns :
        Contains(pattern, word) => word = pattern) =>
    (TakenAsAffirmative <=> SomeTokenHasPattern(ConfirmationAnswer))

\* C39: within one turn the pending product is added to the cart at most once:
\* no path through supervisor, deals and cart_and_checkout makes the cart
\* specialist execute the add request a second time.
C39_AddedAtMostOncePerTurn == mem.addRequests <= 1

\* C39 happens: a turn that added the pending product once and went on to the
\* checkout
C39_Witness ==
  /\ mem.addRequests = 1
  /\ CountOf(trace, "cart_and_checkout") >= 2
  /\ pc = "idle"
  /\ outcome = "ok"

\* C39, what the code allows: the add request is executed at most twice in a turn
C39_AddedAtMostTwicePerTurn == mem.addRequests <= 2

\* C40: for each successful checkout the notification delivery collaborator is
\* invoked at most once, over any sequence of later supervisor steps and later
\* turns: the deliveries never outnumber the checkouts reported, a delivery is
\* made only for a payload, and the node that delivered leaves no payload behind.
C40_OneDeliveryPerCheckout ==
  /\ mem.deliveries <= mem.checkouts
  /\ (last.node = "notification_agent" /\ "pushover" \in last.calls)
       => Truthy(last.pre.notificationData)
  /\ (last.node = "notification_agent" /\ ~last.threw) => ~Truthy(st.notificationData)

\* C40 happens: an order was delivered in the first turn and a second turn of
\* the conversation has ended without another delivery
C40_Witness ==
  /\ turn = 2
  /\ pc = "idle"
  /\ outcome = "ok"
  /\ mem.checkouts = 1
  /\ mem.deliveries = 1
  /\ NotificationRanBefore(st.messages)

====
